---- MODULE Spec2Model ----
(***************************************************************************)
(* Model of noah-cli's catalog: the Project -> Experiment -> Type -> Phase *)
(* tree of models/data.py and models/config.py, and ConfigManager's        *)
(* add_data, remove_data and find_data (core/config.py); of the            *)
(* single-file fetch of NetworkClient.fetch_file (core/network.py); of the *)
(* derivation of a run's Files from its accession (helpers/database.py);   *)
(* of the accession resolver, get_info_by_accession_number; of            *)
(* DataManager's check_files and remove_files on a model of the data       *)
(* directory (core/file.py).                                               *)
(* Each subsystem has its own specification; the variables of the others   *)
(* stay at rest in it.                                                     *)
(*                                                                         *)
(* Python values are modelled as follows: None is the string "None"; a     *)
(* list is a sequence; a dataclass is a record; an Enum member is the      *)
(* string of its member name ("CHIP"), its .value the stored string        *)
(* ("chip"); an object reference into the tree is the index path to it.    *)
(***************************************************************************)
EXTENDS Integers, Sequences, FiniteSets, TLC

VARIABLES
  data,   \* config.data: the catalog tree, a list of Projects
  last,   \* the call that has just returned, NoCall once the caller has taken it
  fetch,  \* the fetch_file call in progress: its position and its locals
  derived, \* a call of a pure helper: its arguments and, once made, its result
  resolver, \* the get_info_by_accession_number call in progress: its locals
  disk,   \* the filesystem: the project directory and what is under it
  managed, \* the DataManager call that has just returned, NoFilesCall once taken
  command \* the run of a command: the manifest on disk and what the run did

vars == <<data, last, fetch, derived, resolver, disk, managed, command>>

\* What a specification of one subsystem leaves at rest.
otherThanCatalog == <<fetch, derived, resolver, disk, managed, command>>
otherThanFetch == <<data, last, derived, resolver, disk, managed, command>>
otherThanResolver == <<data, last, fetch, derived, disk, managed, command>>
otherThanFiles == <<last, fetch, derived, resolver, command>>

None == "None"

\* ---------------------------------------------------------------- bounds
\* Largest number of Entries handed to one add_data / remove_data call.
MaxBatch == 3
\* Largest number of query Entries handed to one find_data call.
MaxQueries == 2

\* ------------------------------------------------------- models/data.py
\* class EType(str, Enum): the member names.
EType == {"CHIP", "CHIP_INPUT", "RNA"}

\* class EPhase(str, Enum): the member names.
EPhase == {"RAW"}

\* EType.<member>.value
ETypeValue(m) ==
  CASE m = "CHIP" -> "chip"
    [] m = "CHIP_INPUT" -> "chip-input"
    [] m = "RNA" -> "rna"
    [] OTHER -> "AttributeError"

\* EPhase.<member>.value
EPhaseValue(m) ==
  CASE m = "RAW" -> "raw"
    [] OTHER -> "AttributeError"

\* Type.enum: EType(self.type), the member whose value is the stored string;
\* a string outside the vocabulary raises ValueError.
TypeEnum(s) ==
  IF \E m \in EType : ETypeValue(m) = s
  THEN CHOOSE m \in EType : ETypeValue(m) = s
  ELSE "ValueError"

\* Phase.enum: EPhase(self.phase).
PhaseEnum(s) ==
  IF \E m \in EPhase : EPhaseValue(m) = s
  THEN CHOOSE m \in EPhase : EPhaseValue(m) = s
  ELSE "ValueError"

\* @dataclass Source / File
Source(type, value) == [type |-> type, value |-> value]
File(checksum, sources) == [checksum |-> checksum, sources |-> sources]

\* @dataclass Entry
Entry(project, experiment, type, phase, identifier, files) ==
  [project |-> project, experiment |-> experiment, type |-> type,
   phase |-> phase, identifier |-> identifier, files |-> files]

\* Entry.__eq__ / __hash__: the four path components only.
EntryKey(e) == <<e.project, e.experiment, e.type, e.phase>>
EntryEq(a, b) == EntryKey(a) = EntryKey(b)

\* The least element of a set of indices, 0 (Python None) when it is empty.
FirstIndex(S) == IF S = {} THEN 0 ELSE CHOOSE i \in S : \A j \in S : i <= j

\* __getitem__ raises TypeError for a non-str item (None).
TypeErr == -1

\* Data.__getitem__(str): the first Project with that name.
DataGetItem(d, item) ==
  IF item = None THEN TypeErr
  ELSE FirstIndex({i \in 1..Len(d) : d[i].project = item})

\* Project.__getitem__: the first Experiment with that name.
ProjectGetItem(project, item) ==
  IF item = None THEN TypeErr
  ELSE FirstIndex({i \in 1..Len(project.experiments) :
                     project.experiments[i].experiment = item})

\* Experiment.__getitem__: the first Type whose stored string equals the
\* item; the item is an EType member, a str that compares by its value.
ExperimentGetItem(experiment, item) ==
  IF item = None THEN TypeErr
  ELSE FirstIndex({i \in 1..Len(experiment.types) :
                     experiment.types[i].type = ETypeValue(item)})

\* Type.__getitem__ comparing the stored string with the member's name
\* instead of its value: the lookup never finds a Phase.
TypeGetItemByName(type_, item) ==
  IF item = None THEN TypeErr
  ELSE FirstIndex({i \in 1..Len(type_.phases) :
                     type_.phases[i].phase = item})

\* Type.__getitem__: the first Phase whose stored string equals the item.
TypeGetItem(type_, item) ==
  IF item = None THEN TypeErr
  ELSE FirstIndex({i \in 1..Len(type_.phases) :
                     type_.phases[i].phase = EPhaseValue(item)})

\* list.remove(x): drop the first element equal to x.
ListRemove(s, x) ==
  LET k == FirstIndex({i \in 1..Len(s) : s[i] = x})
  IN IF k = 0 THEN s
     ELSE [i \in 1..(Len(s) - 1) |-> IF i < k THEN s[i] ELSE s[i + 1]]

\* ------------------------------------------------- add_data (core/config.py)
\* Phase(...) built without identifier=entry.identifier.
NewPhaseNoIdentifier(entry) ==
  [phase |-> EPhaseValue(entry.phase), identifier |-> None,
   files |-> entry.files]

\* Phase(...) built without files=entry.files.
NewPhaseNoFiles(entry) ==
  [phase |-> EPhaseValue(entry.phase), identifier |-> entry.identifier,
   files |-> <<>>]

\* Phase(phase=str(entry.phase.value), identifier=..., files=entry.files)
NewPhase(entry) ==
  [phase |-> EPhaseValue(entry.phase), identifier |-> entry.identifier,
   files |-> entry.files]

\* The result of one pass through a loop body: the tree and how it ended.
Step(d, status) == [data |-> d, status |-> status]

\* The body of add_data's loop for one Entry.  "next" continues the loop,
\* "Exit" is raise Exit(code=1) after the duplicate-entry message; None.value
\* raises AttributeError before anything is appended. What is appended is
\* Type(type=str(entry.type.value), phases=[Phase(...)]), that Type in an
\* Experiment(experiment=entry.experiment, types=[...]), or that Experiment
\* in a Project(project=entry.project, experiments=[...]).
AddDataEntry(d, entry) ==
  LET NewType == [type |-> ETypeValue(entry.type),
                  phases |-> <<NewPhase(entry)>>]
      NewExperiment == [experiment |-> entry.experiment, types |-> <<NewType>>]
      NewProject == [project |-> entry.project,
                     experiments |-> <<NewExperiment>>]
      pi == DataGetItem(d, entry.project) IN
  IF pi = TypeErr THEN Step(d, "TypeError")
  ELSE IF pi # 0 THEN
    LET ei == ProjectGetItem(d[pi], entry.experiment) IN
    IF ei = TypeErr THEN Step(d, "TypeError")
    ELSE IF ei # 0 THEN
      LET ti == ExperimentGetItem(d[pi].experiments[ei], entry.type) IN
      IF ti = TypeErr THEN Step(d, "TypeError")
      ELSE IF ti # 0 THEN
        LET hi == TypeGetItem(d[pi].experiments[ei].types[ti], entry.phase) IN
        IF hi = TypeErr THEN Step(d, "TypeError")
        ELSE IF hi # 0 THEN Step(d, "Exit")
        ELSE Step([d EXCEPT ![pi].experiments[ei].types[ti].phases =
                               Append(@, NewPhase(entry))], "next")
      ELSE IF entry.phase = None THEN Step(d, "AttributeError")
      ELSE Step([d EXCEPT ![pi].experiments[ei].types =
                             Append(@, NewType)], "next")
    ELSE IF entry.type = None \/ entry.phase = None
      THEN Step(d, "AttributeError")
    ELSE Step([d EXCEPT ![pi].experiments = Append(@, NewExperiment)],
              "next")
  ELSE IF entry.type = None \/ entry.phase = None
    THEN Step(d, "AttributeError")
  ELSE Step(Append(d, NewProject), "next")

\* The result of a whole call: the tree, "ok" or the exception, and the
\* index of the Entry that raised (0 when none did).
Result(d, status, at) == [data |-> d, status |-> status, at |-> at]

RECURSIVE AddDataFromSkipping(_, _, _)
\* add_data with the duplicate Entry skipped (continue) instead of fatal.
AddDataFromSkipping(d, entries, i) ==
  IF i > Len(entries) THEN Result(d, "ok", 0)
  ELSE LET r == AddDataEntry(d, entries[i]) IN
       IF r.status \in {"next", "Exit"}
       THEN AddDataFromSkipping(r.data, entries, i + 1)
       ELSE Result(r.data, r.status, i)

RECURSIVE AddDataFrom(_, _, _)
\* for entry in entries: ... , from the i-th Entry on.
AddDataFrom(d, entries, i) ==
  IF i > Len(entries) THEN Result(d, "ok", 0)
  ELSE LET r == AddDataEntry(d, entries[i]) IN
       IF r.status = "next" THEN AddDataFrom(r.data, entries, i + 1)
       ELSE Result(r.data, r.status, i)

\* ---------------------------------------------- remove_data (core/config.py)
\* remove_data without the test that prunes an emptied Type.
PruneTypeNever(experiment, ti) == experiment

\* len(type_.phases) == 0 -> experiment.types.remove(type_), after the
\* Phase at hi has been removed from the Type at ti.
PruneType(experiment, ti) ==
  IF Len(experiment.types[ti].phases) = 0
  THEN [experiment EXCEPT !.types = ListRemove(@, experiment.types[ti])]
  ELSE experiment

\* remove_data with the Experiment test nested under the Type test's
\* else branch: an Experiment emptied by this removal is not pruned.
PruneExperimentNever(project, ei) == project

\* len(experiment.types) == 0 -> project.experiments.remove(experiment)
PruneExperiment(project, ei) ==
  IF Len(project.experiments[ei].types) = 0
  THEN [project EXCEPT !.experiments = ListRemove(@, project.experiments[ei])]
  ELSE project

\* The body of remove_data's loop for one Entry; falling out of the nested
\* ifs reaches the missing-entry message and raise Exit(code=1). RemovePhase
\* is type_.phases.remove(phase) and the three pruning tests that follow
\* it, the last one len(project.experiments) == 0 ->
\* config.data.remove(project).
RemoveDataEntry(d, entry) ==
  LET RemovePhase(pi, ei, ti, hi) ==
        LET type_ == d[pi].experiments[ei].types[ti]
            d1 == [d EXCEPT ![pi].experiments[ei].types[ti].phases =
                               ListRemove(@, type_.phases[hi])]
            d2 == [d1 EXCEPT ![pi].experiments[ei] = PruneType(@, ti)]
            d3 == [d2 EXCEPT ![pi] = PruneExperiment(@, ei)]
        IN  IF Len(d3[pi].experiments) = 0 THEN ListRemove(d3, d3[pi]) ELSE d3
      pi == DataGetItem(d, entry.project) IN
  IF pi = TypeErr THEN Step(d, "TypeError")
  ELSE IF pi = 0 THEN Step(d, "Exit")
  ELSE
    LET ei == ProjectGetItem(d[pi], entry.experiment) IN
    IF ei = TypeErr THEN Step(d, "TypeError")
    ELSE IF ei = 0 THEN Step(d, "Exit")
    ELSE
      LET ti == ExperimentGetItem(d[pi].experiments[ei], entry.type) IN
      IF ti = TypeErr THEN Step(d, "TypeError")
      ELSE IF ti = 0 THEN Step(d, "Exit")
      ELSE
        LET hi == TypeGetItem(d[pi].experiments[ei].types[ti], entry.phase) IN
        IF hi = TypeErr THEN Step(d, "TypeError")
        ELSE IF hi = 0 THEN Step(d, "Exit")
        ELSE Step(RemovePhase(pi, ei, ti, hi), "next")

RECURSIVE RemoveDataFromSkipping(_, _, _)
\* remove_data with the missing Entry skipped (continue) instead of fatal.
RemoveDataFromSkipping(d, entries, i) ==
  IF i > Len(entries) THEN Result(d, "ok", 0)
  ELSE LET r == RemoveDataEntry(d, entries[i]) IN
       IF r.status \in {"next", "Exit"}
       THEN RemoveDataFromSkipping(r.data, entries, i + 1)
       ELSE Result(r.data, r.status, i)

RECURSIVE RemoveDataFrom(_, _, _)
\* for entry in entries: ... , from the i-th Entry on.
RemoveDataFrom(d, entries, i) ==
  IF i > Len(entries) THEN Result(d, "ok", 0)
  ELSE LET r == RemoveDataEntry(d, entries[i]) IN
       IF r.status = "next" THEN RemoveDataFrom(r.data, entries, i + 1)
       ELSE Result(r.data, r.status, i)

\* ------------------------------------- iter_data (helpers/common.py)
RECURSIVE Flatten(_)
\* The elements yielded by nested for loops, outer sequence first.
Flatten(seqs) ==
  IF seqs = <<>> THEN <<>> ELSE Head(seqs) \o Flatten(Tail(seqs))

\* for phase in type_.phases: Entry(..., phase=phase.enum,
\*                                  identifier=phase.identifier, files=phase.files)
PhaseEntries(p, e, t, type_) ==
  [i \in 1..Len(type_.phases) |->
     Entry(p, e, t, PhaseEnum(type_.phases[i].phase),
           type_.phases[i].identifier, type_.phases[i].files)]

\* for type_ in experiment.types: for phase in type_.phases: ... type=type_.enum
TypeEntries(p, e, experiment) ==
  Flatten([i \in 1..Len(experiment.types) |->
             PhaseEntries(p, e, TypeEnum(experiment.types[i].type),
                          experiment.types[i])])

\* for experiment in project.experiments: ... experiment=experiment.experiment
ExperimentEntries(p, project) ==
  Flatten([i \in 1..Len(project.experiments) |->
             TypeEntries(p, project.experiments[i].experiment,
                         project.experiments[i])])

\* iter_data(data): every Entry of the tree, in tree order.
IterData(d) ==
  Flatten([i \in 1..Len(d) |-> ExperimentEntries(d[i].project, d[i])])

\* ------------------------------------------------ find_data (core/config.py)
\* The identifier test narrowed to the query's project when it names one.
IdentifierMatchesInProject(config_entry, entry) ==
  /\ config_entry.identifier = entry.identifier
  /\ entry.project = None \/ config_entry.project = entry.project

\* config_entry.identifier == entry.identifier
IdentifierMatches(config_entry, entry) ==
  config_entry.identifier = entry.identifier

\* find_data filtering the whole tree by every level the query sets,
\* instead of descending while the levels are set.
FindDataEntryFiltering(d, entry) ==
  IF entry.identifier # None
  THEN SelectSeq(IterData(d), LAMBDA c : IdentifierMatches(c, entry))
  ELSE IF entry.project # None
  THEN SelectSeq(IterData(d),
                 LAMBDA c : /\ c.project = entry.project
                            /\ entry.experiment \in {None, c.experiment}
                            /\ entry.type \in {None, c.type}
                            /\ entry.phase \in {None, c.phase})
  ELSE IterData(d)

\* The catalog Entries one query Entry hands to found.add, in that order.
FindDataEntry(d, entry) ==
  IF entry.identifier # None
  THEN SelectSeq(IterData(d), LAMBDA c : IdentifierMatches(c, entry))
  ELSE IF entry.project # None THEN
    LET pi == DataGetItem(d, entry.project) IN
    IF pi = 0 THEN <<>>
    ELSE IF entry.experiment # None THEN
      LET ei == ProjectGetItem(d[pi], entry.experiment) IN
      IF ei = 0 THEN <<>>
      ELSE IF entry.type # None THEN
        LET ti == ExperimentGetItem(d[pi].experiments[ei], entry.type) IN
        IF ti = 0 THEN <<>>
        ELSE IF entry.phase # None THEN
          LET type_ == d[pi].experiments[ei].types[ti]
              hi == TypeGetItem(type_, entry.phase) IN
          IF hi = 0 THEN <<>>
          ELSE <<Entry(entry.project, entry.experiment, entry.type,
                       entry.phase, type_.phases[hi].identifier,
                       type_.phases[hi].files)>>
        ELSE PhaseEntries(entry.project, entry.experiment, entry.type,
                          d[pi].experiments[ei].types[ti])
      ELSE TypeEntries(entry.project, entry.experiment,
                       d[pi].experiments[ei])
    ELSE ExperimentEntries(entry.project, d[pi])
  ELSE IterData(d)

\* OrderedSet.add that moves an element already present to the end.
OrderedSetAddMoveToEnd(found, e) ==
  Append(SelectSeq(found, LAMBDA x : ~EntryEq(x, e)), e)

\* OrderedSet.add: append unless an equal (same path) element is present.
OrderedSetAdd(found, e) ==
  IF \E i \in 1..Len(found) : EntryEq(found[i], e) THEN found
  ELSE Append(found, e)

RECURSIVE OrderedSetUpdate(_, _)
\* found.add for each element of a sequence, in order.
OrderedSetUpdate(found, es) ==
  IF es = <<>> THEN found
  ELSE OrderedSetUpdate(OrderedSetAdd(found, Head(es)), Tail(es))

RECURSIVE FindDataFrom(_, _, _, _)
\* for entry in entries: ... , from the i-th query on; list(found) at the end.
FindDataFrom(d, entries, i, found) ==
  IF i > Len(entries) THEN found
  ELSE FindDataFrom(d, entries, i + 1,
                    OrderedSetUpdate(found, FindDataEntry(d, entries[i])))

\* ------------------------------------------------------------ the inputs
\* The Entries handed to add_data and remove_data: complete paths, two of
\* them on the same path, identifiers carried at two places of the tree, one
\* Entry without identifier and one without Files.
EntryPool ==
  LET File1 == File(None, <<Source("local", "/in/a.fastq")>>)
      File2 == File("9e107d9d",
                    <<Source("aspera", "era:/vol1/SRR1_1.fastq.gz"),
                      Source("ftp", "ftp://host/vol1/SRR1_1.fastq.gz")>>)
  IN  { Entry("p1", "e1", "CHIP", "RAW", "SRX1", <<File1>>),
        Entry("p1", "e1", "RNA", "RAW", "SRX1", <<File2>>),
        Entry("p1", "e2", "CHIP", "RAW", "SRX2", <<File1>>),
        Entry("p2", "e1", "CHIP_INPUT", "RAW", None, <<File1, File2>>),
        Entry("p1", "e1", "CHIP", "RAW", "SRX2", <<>>) }

\* The query Entries handed to find_data: the wildcard Entry(), project p1
\* with every combination of set and unset experiment, type and phase, a
\* project that is never cataloged, and identifier queries with and without
\* path fields.
QueryPool ==
  { Entry(None, None, None, None, None, <<>>),
    Entry("p3", None, None, None, None, <<>>),
    Entry(None, None, None, None, "SRX1", <<>>),
    Entry("p2", "e1", "CHIP", "RAW", "SRX2", <<>>),
    Entry("p1", None, None, None, "SRX9", <<>>) }
  \cup { Entry("p1", e, t, ph, None, <<>>) :
           e \in {None, "e1"}, t \in {None, "RNA"}, ph \in {None, "RAW"} }

\* The sequences over S of length at most n.
SeqsUpTo(S, n) == UNION { [1..k -> S] : k \in 0..n }

\* ------------------------------------------------------- core/network.py
\* Largest number of Sources listed by a File handed to fetch_file.
MaxSources == 2

\* fetch_with_retry(func, retries=3): the default every caller uses.
Retries == 3

\* class ESource(str, Enum): the values of its members.
ESourceValue(e) ==
  CASE e = "ASPERA" -> "aspera"
    [] e = "FTP"    -> "ftp"
    [] e = "HTTP"   -> "http"
    [] e = "LOCAL"  -> "local"
    [] e = "SSH"    -> "ssh"

\* A Source's value is a string; it is modelled as the sequence of its
\* pieces, ":" being a piece of its own.
\* parse_ssh_path(path): (host, remote_path), or ValueError.
ParseSshPath(path) ==
  IF \A i \in 1..Len(path) : path[i] # ":" THEN "ValueError"
  ELSE LET k      == CHOOSE i \in 1..Len(path) :
                       /\ path[i] = ":"
                       /\ \A j \in (i + 1)..Len(path) : path[j] # ":"
           host   == SubSeq(path, 1, k - 1)
           remote == SubSeq(path, k + 1, Len(path))
       IN  IF host = <<>> \/ remote = <<>> THEN "ValueError"
           ELSE <<host, remote>>

\* The match statement of fetch_file: the routine a Source is handed to, None
\* when its type is none of the five cases (the loop then goes on to the
\* next Source, nothing raised, nothing fetched).
Dispatch(type) ==
  CASE type = ESourceValue("ASPERA") -> "fetch_with_aspera"
    [] type = ESourceValue("FTP")    -> "fetch_from_ftp"
    [] type = ESourceValue("HTTP")   -> "fetch_from_http"
    [] type = ESourceValue("LOCAL")  -> "fetch_from_local"
    [] type = ESourceValue("SSH")    -> "fetch_over_ssh"
    [] OTHER                         -> None

\* Whether a routine gets as far as fetch_with_retry: fetch_with_aspera
\* raises RuntimeError when ascp is not installed, fetch_over_ssh raises
\* ValueError on a path parse_ssh_path rejects.
ReachesRetry(routine, value, ascp) ==
  CASE routine = "fetch_with_aspera" -> ascp
    [] routine = "fetch_over_ssh"    -> ParseSshPath(value) # "ValueError"
    [] OTHER                         -> TRUE

\* What is at the destination path: nothing, a directory, or a file, given
\* by its content.
Absent == "absent"
Directory == "directory"
Contents == {"c1", "c2"}

\* What a transfer that raised may leave at the destination: the part of the
\* file it had written.
Partial == "partial"

\* hashlib's MD5 of a content.
Md5(c) ==
  CASE c = "c1" -> "h1"
    [] c = "c2" -> "h2"

\* get_file_hash(path): open() raises on a missing path and on a directory.
GetFileHash(d) ==
  CASE d = Absent    -> "FileNotFoundError"
    [] d = Directory -> "IsADirectoryError"
    [] OTHER         -> Md5(d)

\* `if file.checksum:` -- None and the empty string are falsy.
Truthy(checksum) == checksum # None /\ checksum # ""

\* The Files handed to fetch_file, and their Sources.
FetchFiles ==
  LET SourcePool ==
        { Source("aspera", <<"era-fasp@fasp.sra.ebi.ac.uk", ":", "vol1/f.gz">>),
          Source("ftp", <<"ftp", ":", "//ftp.sra.ebi.ac.uk/vol1/f.gz">>),
          Source("http", <<"https", ":", "//example.org/f.gz">>),
          Source("local", <<"/srv/f.gz">>),
          Source("ssh", <<"host", ":", "/srv/f.gz">>),
          Source("ssh", <<"/srv/f.gz">>),
          Source("gopher", <<"gopher", ":", "//example.org/f.gz">>) }
  IN  { File(c, s) : c \in {None, "", "h1"},
                     s \in SeqsUpTo(SourcePool, MaxSources) }

\* One call of a transfer routine's body, or a routine raising before it
\* tried (try = 0): the Source's index in file.sources, the number of the
\* try and whether it returned.
Attempt(source, try, ok) == [source |-> source, try |-> try, ok |-> ok]

\* No fetch_file call is in progress.
FetchIdle ==
  [pc |-> "idle", file |-> File(None, <<>>), given |-> File(None, <<>>),
   dest |-> Absent, found |-> Absent, src |-> 0, tries |-> 0, log |-> <<>>,
   hashed |-> FALSE]

\* fetch_file entered with File f and d found at the destination path:
\* whatever is there is removed (unlink for a file, rmtree for a directory),
\* the parent is made otherwise, and the for loop is about to take the first
\* Source.
Entered(f, d) ==
  [pc |-> "loop", file |-> f, given |-> f,
   dest |-> IF d # Absent THEN Absent ELSE d, found |-> d,
   src |-> 1, tries |-> 0, log |-> <<>>, hashed |-> FALSE]

\* A for loop without its else clause: with no Source left, fetch_file
\* goes on to the checksum step.
ExhaustedSilently(f) == [f EXCEPT !.pc = "checksum"]

\* The else clause of the for loop: no Source was left, Exit(code=1).
Exhausted(f) == [f EXCEPT !.pc = "NoReachableSource"]

\* A for loop that clears the destination before it hands a Source to its
\* routine.
TakeSourceCleaning(f, ascp) ==
  IF f.src > Len(f.file.sources) THEN Exhausted(f)
  ELSE LET source  == f.file.sources[f.src]
           routine == Dispatch(source.type)
       IN  IF routine = None THEN [f EXCEPT !.src = f.src + 1]
           ELSE IF ReachesRetry(routine, source.value, ascp)
                THEN [f EXCEPT !.pc = "try", !.tries = 0, !.dest = Absent]
                ELSE [f EXCEPT !.src = f.src + 1,
                               !.log = Append(f.log, Attempt(f.src, 0, FALSE))]

\* The head of the for loop and the match statement inside the try.
TakeSource(f, ascp) ==
  IF f.src > Len(f.file.sources) THEN Exhausted(f)
  ELSE LET source  == f.file.sources[f.src]
           routine == Dispatch(source.type)
       IN  IF routine = None THEN [f EXCEPT !.src = f.src + 1]
           ELSE IF ReachesRetry(routine, source.value, ascp)
                THEN [f EXCEPT !.pc = "try", !.tries = 0]
                ELSE [f EXCEPT !.src = f.src + 1,
                               !.log = Append(f.log, Attempt(f.src, 0, FALSE))]

\* A fetch_with_retry that returns after its last try whether or not the
\* try raised: fetch_file takes the Source for fetched.
AfterTryIgnoringFailure(f, ok, c) ==
  LET logged == [f EXCEPT !.log = Append(f.log, Attempt(f.src, f.tries + 1, ok)),
                          !.tries = f.tries + 1, !.dest = c]
  IN  IF ok THEN [logged EXCEPT !.pc = "checksum"]
      ELSE IF f.tries + 1 = Retries
           THEN [logged EXCEPT !.pc = "checksum"]
           ELSE logged

\* A fetch_file whose loop has no `break`: after a Source completed, the
\* next one is taken all the same.
AfterTryNoBreak(f, ok, c) ==
  LET logged == [f EXCEPT !.log = Append(f.log, Attempt(f.src, f.tries + 1, ok)),
                          !.tries = f.tries + 1, !.dest = c]
  IN  IF ok THEN [logged EXCEPT !.pc = "loop", !.src = f.src + 1]
      ELSE IF f.tries + 1 = Retries
           THEN [logged EXCEPT !.pc = "loop", !.src = f.src + 1]
           ELSE logged

\* One iteration of fetch_with_retry's loop; c is what the transfer leaves
\* at the destination. func() returning ends the routine, and fetch_file's
\* `break` leaves the for loop; func() raising is warned about, and after
\* the last try the RuntimeError is caught by fetch_file, which goes on to
\* the next Source.
AfterTry(f, ok, c) ==
  LET logged == [f EXCEPT !.log = Append(f.log, Attempt(f.src, f.tries + 1, ok)),
                          !.tries = f.tries + 1, !.dest = c]
  IN  IF ok THEN [logged EXCEPT !.pc = "checksum"]
      ELSE IF f.tries + 1 = Retries
           THEN [logged EXCEPT !.pc = "loop", !.src = f.src + 1]
           ELSE logged

\* A checksum step that computes the first digest and does not keep it.
VerifyOrEstablishForgets(f) ==
  LET digest == GetFileHash(f.dest)
      done   == [f EXCEPT !.hashed = TRUE]
  IN  IF Truthy(f.file.checksum)
      THEN IF digest # f.file.checksum THEN [done EXCEPT !.pc = "Mismatch"]
           ELSE [done EXCEPT !.pc = "Verified"]
      ELSE [done EXCEPT !.pc = "Established"]

\* A checksum step that, on a mismatch, takes the new digest for the
\* File's checksum.
VerifyOrEstablishOverwrites(f) ==
  LET digest == GetFileHash(f.dest)
      done   == [f EXCEPT !.hashed = TRUE]
  IN  IF Truthy(f.file.checksum)
      THEN IF digest # f.file.checksum
           THEN [done EXCEPT !.pc = "Mismatch", !.file.checksum = digest]
           ELSE [done EXCEPT !.pc = "Verified"]
      ELSE [done EXCEPT !.pc = "Established", !.file.checksum = digest]

\* fetch_file lines 190-195: verify the digest against the File's checksum,
\* or establish the checksum from the digest.
VerifyOrEstablish(f) ==
  LET digest == GetFileHash(f.dest)
      done   == [f EXCEPT !.hashed = TRUE]
  IN  IF Truthy(f.file.checksum)
      THEN IF digest # f.file.checksum THEN [done EXCEPT !.pc = "Mismatch"]
           ELSE [done EXCEPT !.pc = "Verified"]
      ELSE [done EXCEPT !.pc = "Established", !.file.checksum = digest]

\* How a fetch_file call ends: returning, or raising Exit(code=1).
Terminal == {"Verified", "Established", "Mismatch", "NoReachableSource"}

\* ----------------------------------------------------- str, as Python has it
\* A str is modelled as the sequence of its characters; a literal piece of
\* an f-string that no code looks into is one element of the sequence.
LowerCase ==
  <<"a", "b", "c", "d", "e", "f", "g", "h", "i", "j", "k", "l", "m",
    "n", "o", "p", "q", "r", "s", "t", "u", "v", "w", "x", "y", "z">>

UpperCase ==
  <<"A", "B", "C", "D", "E", "F", "G", "H", "I", "J", "K", "L", "M",
    "N", "O", "P", "Q", "R", "S", "T", "U", "V", "W", "X", "Y", "Z">>

Digits == <<"0", "1", "2", "3", "4", "5", "6", "7", "8", "9">>

\* c.islower(), c.isupper(), c.isdigit() of a character.
IsLower(c) == \E i \in 1..26 : LowerCase[i] = c

IsUpper(c) == \E i \in 1..26 : UpperCase[i] = c

IsDigit(c) == \E i \in 1..10 : Digits[i] = c

\* s.upper() and s.lower()
StrUpper(s) ==
  [i \in 1..Len(s) |->
     IF IsLower(s[i]) THEN UpperCase[CHOOSE k \in 1..26 : LowerCase[k] = s[i]]
     ELSE s[i]]

StrLower(s) ==
  [i \in 1..Len(s) |->
     IF IsUpper(s[i]) THEN LowerCase[CHOOSE k \in 1..26 : UpperCase[k] = s[i]]
     ELSE s[i]]

\* s.startswith(prefix)
StartsWith(s, prefix) ==
  Len(s) >= Len(prefix) /\ SubSeq(s, 1, Len(prefix)) = prefix

\* s[:n]
SliceTo(s, n) == SubSeq(s, 1, IF n < Len(s) THEN n ELSE Len(s))

\* s[k:], a negative k counting from the end.
SliceFrom(s, k) ==
  LET start == IF k >= 0 THEN k
               ELSE IF Len(s) + k > 0 THEN Len(s) + k ELSE 0
  IN  SubSeq(s, start + 1, Len(s))

\* --------------------------------------------------- helpers/database.py
\* Largest number of digits of a run accession after its three letters.
MaxDigits == 7

\* What stands for the ValueError of int(s).
NotANumber == -1

\* int(s) of a str: its decimal value, ValueError unless s is a non-empty
\* string of digits.
RECURSIVE DecimalValue(_)
DecimalValue(s) ==
  IF s = <<>> THEN 0
  ELSE 10 * DecimalValue(SubSeq(s, 1, Len(s) - 1))
         + (CHOOSE d \in 0..9 : Digits[d + 1] = s[Len(s)])

IntOfStr(s) ==
  IF s = <<>> \/ \E i \in 1..Len(s) : \A d \in 1..10 : Digits[d] # s[i]
  THEN NotANumber
  ELSE DecimalValue(s)

\* str(n) of a natural number.
RECURSIVE Decimal(_)
Decimal(n) ==
  IF n < 10 THEN <<Digits[n + 1]>>
  ELSE Append(Decimal(n \div 10), Digits[(n % 10) + 1])

\* f"{n:03d}": zero-padded to at least three digits.
Format03d(n) ==
  LET d == Decimal(n)
  IN  IF Len(d) >= 3 THEN d ELSE [i \in 1..(3 - Len(d)) |-> "0"] \o d

\* Whether building the path raises: int() of the characters after the
\* ninth, evaluated when the accession is longer than 9 characters.
PathRaises(srr) ==
  Len(srr) > 9 /\ IntOfStr(SliceFrom(srr, 9 - Len(srr))) = NotANumber

\* A numeric folder from 9 characters on: the value of the characters
\* after the sixth.
NumericFolderFromNine(srr) ==
  IF Len(srr) >= 9
  THEN Format03d(IntOfStr(SliceFrom(srr, 6))) \o <<"/">>
  ELSE <<>>

\* A numeric folder written without padding: str() of the value.
NumericFolderUnpadded(srr) ==
  IF Len(srr) > 9
  THEN Decimal(IntOfStr(SliceFrom(srr, 9 - Len(srr)))) \o <<"/">>
  ELSE <<>>

\* The numeric folder of the path, with its slash: present when the
\* accession is longer than 9 characters.
NumericFolder(srr) ==
  IF Len(srr) > 9
  THEN Format03d(IntOfStr(SliceFrom(srr, 9 - Len(srr)))) \o <<"/">>
  ELSE <<>>

\* The path both url helpers build after their root.
ObjectPath(root, srr) ==
  root \o SliceTo(srr, 6) \o <<"/">> \o NumericFolder(srr)
    \o srr \o <<"/">> \o srr

\* The str, or the pair of str, the url helpers return.
UrlsOf(path, paired) ==
  IF paired THEN <<path \o <<"_1.fastq.gz">>, path \o <<"_2.fastq.gz">>>>
  ELSE path \o <<".fastq.gz">>

AsperaRoot == <<"era-fasp@fasp.sra.ebi.ac.uk", ":", "vol1/fastq/">>

FtpRoot == <<"ftp", ":", "//ftp.sra.ebi.ac.uk/vol1/fastq/">>

\* get_aspera_url_from_srr(srr, paired)
GetAsperaUrlFromSrr(srr, paired) == UrlsOf(ObjectPath(AsperaRoot, srr), paired)

\* get_ftp_url_from_srr(srr, paired)
GetFtpUrlFromSrr(srr, paired) == UrlsOf(ObjectPath(FtpRoot, srr), paired)

\* get_files_from_srr(srr, paired)
GetFilesFromSrr(srr, paired) ==
  LET aspera == GetAsperaUrlFromSrr(srr, paired)
      ftp    == GetFtpUrlFromSrr(srr, paired)
  IN  IF paired
      THEN [i \in 1..2 |->
              File(None, <<Source(ESourceValue("ASPERA"), aspera[i]),
                           Source(ESourceValue("FTP"), ftp[i])>>)]
      ELSE <<File(None, <<Source(ESourceValue("ASPERA"), aspera),
                          Source(ESourceValue("FTP"), ftp)>>)>>

\* The run accessions handed to get_files_from_srr: SRR and some digits.
RunAccessions ==
  { <<"S", "R", "R">> \o d :
      d \in UNION { [1..n -> {"0", "1", "9"}] : n \in 1..MaxDigits } }

\* A call of a helper: its arguments, how it stands ("pending" until it
\* is made, then "ok" or the exception) and the list it returned.
Derivation(op, srr, paired, status, result) ==
  [op |-> op, srr |-> srr, paired |-> paired, status |-> status,
   result |-> result]

\* No helper is being called.
NoDerivation == Derivation("none", <<>>, FALSE, "ok", <<>>)

\* ------------------------------------- helpers/common.py: combine_name
\* sanitize_string's camelCase rule: "_" is put after the p-th character
\* when a lower-case letter is followed by an upper-case one, or an
\* upper-case letter by an upper-case and then a lower-case one.
SplitAfter(s, p) ==
  \/ /\ IsLower(s[p])
     /\ p + 1 <= Len(s)
     /\ IsUpper(s[p + 1])
  \/ /\ IsUpper(s[p])
     /\ p + 2 <= Len(s)
     /\ IsUpper(s[p + 1])
     /\ IsLower(s[p + 2])

RECURSIVE CamelToSnake(_, _)
\* "_".join of the pieces between the split points, from the p-th character.
CamelToSnake(s, p) ==
  IF p > Len(s) THEN <<>>
  ELSE <<s[p]>> \o (IF SplitAfter(s, p) THEN <<"_">> ELSE <<>>)
         \o CamelToSnake(s, p + 1)

\* re.sub(r"[^a-zA-Z0-9_-]", "_", s)
ReplaceInvalid(s) ==
  [i \in 1..Len(s) |->
     IF IsLower(s[i]) \/ IsUpper(s[i]) \/ IsDigit(s[i]) \/ s[i] \in {"_", "-"}
     THEN s[i] ELSE "_"]

RECURSIVE StripUnderscores(_)
\* s.strip("_")
StripUnderscores(s) ==
  IF s = <<>> THEN s
  ELSE IF Head(s) = "_" THEN StripUnderscores(Tail(s))
  ELSE IF s[Len(s)] = "_" THEN StripUnderscores(SubSeq(s, 1, Len(s) - 1))
  ELSE s

RECURSIVE CollapseUnderscores(_)
\* re.sub(r"_{2,}", "_", s)
CollapseUnderscores(s) ==
  IF Len(s) < 2 THEN s
  ELSE IF s[1] = "_" /\ s[2] = "_" THEN CollapseUnderscores(Tail(s))
  ELSE <<s[1]>> \o CollapseUnderscores(Tail(s))

\* sanitize_string(string)
SanitizeString(s) ==
  CollapseUnderscores(StripUnderscores(ReplaceInvalid(StrLower(CamelToSnake(s, 1)))))

\* s.rfind("_", 0, 40): the 0-based index of the last "_" among the first
\* 40 characters, -1 when there is none.
RFindUnderscore(s) ==
  LET at == { i \in 1..Len(s) : i <= 40 /\ s[i] = "_" }
  IN  IF at = {} THEN -1 ELSE (CHOOSE i \in at : \A j \in at : j <= i) - 1

\* combine_name(prefix, name)
CombineName(prefix, name) ==
  IF name = <<>> THEN StrLower(prefix)
  ELSE LET sane == SanitizeString(name)
           cut  == IF Len(sane) > 40 /\ RFindUnderscore(sane) # -1
                   THEN SliceTo(sane, RFindUnderscore(sane))
                   ELSE sane
       IN  IF StartsWith(cut, StrLower(prefix)) THEN cut
           ELSE StrLower(prefix) \o <<"_">> \o cut

\* ------------------------- core/network.py: get_info_by_accession_number
\* Largest number of accession numbers handed to one resolution.
MaxAccessions == 2

\* The identifiers of the services' records.
Acc ==
  [ ENCSR1AB |-> <<"E", "N", "C", "S", "R", "1", "A", "B">>,
    ENCSR2AB |-> <<"E", "N", "C", "S", "R", "2", "A", "B">>,
    GSE1 |-> <<"G", "S", "E", "1">>,
    GSM1 |-> <<"G", "S", "M", "1">>,
    GSM2 |-> <<"G", "S", "M", "2">>,
    GPL1 |-> <<"G", "P", "L", "1">>,
    SRP1 |-> <<"S", "R", "P", "1">>,
    SRS1 |-> <<"S", "R", "S", "1">>,
    SRS2 |-> <<"S", "R", "S", "2">>,
    SRX1 |-> <<"S", "R", "X", "1">>,
    SRX2 |-> <<"S", "R", "X", "2">>,
    RunA |-> <<"S", "R", "R", "0", "0", "0", "0", "0", "1">>,
    RunB |-> <<"S", "R", "R", "0", "0", "0", "0", "0", "2">>,
    RunC |-> <<"S", "R", "R", "0", "0", "0", "0", "0", "3">> ]

\* A row of the frame sra_metadata returns.
Row(study, stitle, experiment, etitle, strategy, layout, run, sample) ==
  [study_accession |-> study, study_title |-> stitle,
   experiment_accession |-> experiment, experiment_title |-> etitle,
   library_strategy |-> strategy, library_layout |-> layout,
   run_accession |-> run, sample_accession |-> sample]

\* What the services answer. The ENCODE experiment page: its dbxrefs.
EncodeDbxrefs(a) ==
  IF a = Acc.ENCSR1AB THEN << <<"G", "E", "O", ":">> \o Acc.GSE1,
                          <<"U", "C", "S", "C", ":", "x">> >>
  ELSE IF a = Acc.ENCSR2AB THEN << <<"G", "E", "O", ":">> \o Acc.GPL1,
                               <<"G", "E", "O", ":">> \o Acc.GSM1 >>
  ELSE <<>>

\* db.gse_to_gsm(a)["experiment_accession"]: the samples of a series.
GseToGsm(a) == IF a = Acc.GSE1 THEN <<Acc.GSM1, Acc.GSM2>> ELSE <<>>

\* db.gsm_to_srx(a)["experiment_accession"]: the experiments of a sample.
GsmToSrx(a) == IF a \in {Acc.GSM1, Acc.GSM2} THEN <<Acc.SRX1>> ELSE <<>>

\* db.sra_metadata(a): the run-level rows of a study, an experiment, a run.
SraMetadata(a) ==
  LET title == <<"M", "y", " ", "C", "h", "I", "P">>
      RowA  == Row(Acc.SRP1, title, Acc.SRX1, <<>>, "ChIP-Seq", "PAIRED",
                   Acc.RunA, Acc.SRS1)
      RowB  == Row(Acc.SRP1, title, Acc.SRX2, <<>>, "RNA-Seq", "SINGLE",
                   Acc.RunB, Acc.SRS2)
      RowC  == Row(Acc.SRP1, title, Acc.SRX2, <<>>, "RNA-Seq", "SINGLE",
                   Acc.RunC, Acc.SRS2)
  IN  IF a = Acc.SRP1 THEN <<RowA, RowB, RowC>>
      ELSE IF a = Acc.SRX1 \/ a = Acc.RunA THEN <<RowA>>
      ELSE IF a = Acc.SRX2 THEN <<RowB, RowC>>
      ELSE <<>>

\* The accession numbers handed to the resolver.
AccessionPool ==
  {Acc.ENCSR1AB, Acc.ENCSR2AB, Acc.GSE1, <<"g", "s", "e", "1">>, Acc.GSM1, Acc.GSM2, Acc.SRX1, Acc.SRX2,
   Acc.SRP1, Acc.GPL1, <<"S", "R">>}

\* OrderedSet.add / update on the worklist of str.
NumbersAdd(numbers, x) ==
  IF \E i \in 1..Len(numbers) : numbers[i] = x THEN numbers
  ELSE Append(numbers, x)

RECURSIVE NumbersUpdate(_, _)
NumbersUpdate(numbers, xs) ==
  IF xs = <<>> THEN numbers
  ELSE NumbersUpdate(NumbersAdd(numbers, Head(xs)), Tail(xs))

\* An update_mappings that keeps only the last number of a key.
UpdateMappingsReplacing(mappings, srx, number) ==
  [k \in DOMAIN mappings \cup {srx} |->
     IF k = srx THEN <<number>> ELSE mappings[k]]

\* update_mappings(srx, number)
UpdateMappings(mappings, srx, number) ==
  IF srx \in DOMAIN mappings
  THEN IF \E i \in 1..Len(mappings[srx]) : mappings[srx][i] = number
       THEN mappings
       ELSE [mappings EXCEPT ![srx] = Append(@, number)]
  ELSE [k \in DOMAIN mappings \cup {srx} |->
          IF k = srx THEN <<number>> ELSE mappings[k]]

RECURSIVE MapResult(_, _, _)
\* list(map(lambda x: update_mappings(x, accession_number), result))
MapResult(mappings, result, number) ==
  IF result = <<>> THEN mappings
  ELSE MapResult(UpdateMappings(mappings, Head(result), number),
                 Tail(result), number)

\* The branch of the if chain an upper-cased accession number takes; the
\* last test indexes its first three characters.
Branch(a) ==
  IF StartsWith(a, <<"E", "N", "C", "S", "R">>) THEN "ENCSR"
  ELSE IF StartsWith(a, <<"G", "S", "E">>) THEN "GSE"
  ELSE IF StartsWith(a, <<"G", "S", "M">>) THEN "GSM"
  ELSE IF a[1] \notin {"D", "E", "S"} THEN "invalid"
  ELSE IF Len(a) < 2 THEN "IndexError"
  ELSE IF a[2] # "R" THEN "invalid"
  ELSE IF Len(a) < 3 THEN "IndexError"
  ELSE IF a[3] \in {"P", "R", "S", "X"} THEN "SRA"
  ELSE "invalid"

\* The Entry generated for a row; its type is what
\* match row["library_strategy"] makes of the strategy.
RowEntry(row) ==
  LET type == CASE row.library_strategy = "ChIP-Seq" -> "CHIP"
                [] row.library_strategy = "RNA-Seq"  -> "RNA"
                [] OTHER                             -> None
  IN  Entry(CombineName(row.study_accession, row.study_title),
            CombineName(row.experiment_accession, row.experiment_title),
            type, "RAW", row.experiment_accession,
            GetFilesFromSrr(row.run_accession, row.library_layout = "PAIRED"))

\* @dataclass QueryResult
QueryResult(entries, mappings) == [entries |-> entries, mappings |-> mappings]

\* The resolver's locals: where it stands, the argument, the worklist, the
\* Entries, the mappings, the accession numbers popped and those queried so
\* far, the number of tries the last query took, and what the call returned
\* (nothing unless pc is "returned").
Resolution(pc, given, numbers, entries, mappings, popped, queried, tries, res) ==
  [pc |-> pc, given |-> given, numbers |-> numbers, entries |-> entries,
   mappings |-> mappings, popped |-> popped, queried |-> queried,
   tries |-> tries, result |-> res]

\* No resolution is in progress.
ResolveIdle ==
  Resolution("idle", <<>>, <<>>, <<>>, <<>>, <<>>, <<>>, 0,
             QueryResult(<<>>, <<>>))

\* return QueryResult(list(entries), mappings)
Returned(r) ==
  [r EXCEPT !.pc = "returned", !.result = QueryResult(r.entries, r.mappings)]

RECURSIVE AddXrefs(_, _)
\* for xref in dbxrefs: if xref.startswith("GEO:"): numbers.add(xref[4:])
AddXrefs(numbers, xrefs) ==
  IF xrefs = <<>> THEN numbers
  ELSE AddXrefs(IF StartsWith(Head(xrefs), <<"G", "E", "O", ":">>)
                THEN NumbersAdd(numbers, SliceFrom(Head(xrefs), 4))
                ELSE numbers,
                Tail(xrefs))

RECURSIVE AddRowsAppending(_, _)
\* A loop over the rows that keeps the Entries in a list: every row's
\* Entry is appended.
AddRowsAppending(r, rows) ==
  IF rows = <<>> THEN r
  ELSE LET row == Head(rows)
           id  == row.experiment_accession
       IN  AddRowsAppending([r EXCEPT
                      !.entries = Append(@, RowEntry(row)),
                      !.mappings =
                        UpdateMappings(
                          UpdateMappings(
                            UpdateMappings(@, id, row.study_accession),
                            id, row.sample_accession),
                          id, row.run_accession)],
                   Tail(rows))

RECURSIVE AddRows(_, _)
\* for _, row in result.iterrows(): the Entry and its three mappings.
AddRows(r, rows) ==
  IF rows = <<>> THEN r
  ELSE LET row == Head(rows)
           id  == row.experiment_accession
       IN  AddRows([r EXCEPT
                      !.entries = OrderedSetAdd(@, RowEntry(row)),
                      !.mappings =
                        UpdateMappings(
                          UpdateMappings(
                            UpdateMappings(@, id, row.study_accession),
                            id, row.sample_accession),
                          id, row.run_accession)],
                   Tail(rows))

\* The body of the while loop once the service has answered accession a.
Answered(r, a) ==
  CASE Branch(a) = "ENCSR" ->
         [r EXCEPT !.numbers = AddXrefs(@, EncodeDbxrefs(a))]
    [] Branch(a) = "GSE" ->
         [r EXCEPT !.numbers = NumbersUpdate(@, GseToGsm(a)),
                   !.mappings = MapResult(@, GseToGsm(a), a)]
    [] Branch(a) = "GSM" ->
         [r EXCEPT !.numbers = NumbersUpdate(@, GsmToSrx(a)),
                   !.mappings = MapResult(@, GsmToSrx(a), a)]
    [] Branch(a) = "SRA" -> AddRows(r, SraMetadata(a))

\* A while loop that passes over an accession number of no family.
WhileTurnSkipping(r, failures) ==
  IF r.numbers = <<>> THEN Returned(r)
  ELSE LET a      == StrUpper(r.numbers[Len(r.numbers)])
           popped == [r EXCEPT !.numbers = SubSeq(@, 1, Len(@) - 1),
                               !.popped = Append(@, a)]
       IN  IF a = <<>> THEN Returned(popped)
           ELSE IF Branch(a) \in {"invalid", "IndexError"} THEN popped
           ELSE IF failures = Retries
                THEN [popped EXCEPT !.pc = "Exit", !.tries = Retries,
                                    !.queried = Append(@, a)]
           ELSE Answered([popped EXCEPT !.tries = failures + 1,
                                        !.queried = Append(@, a)], a)

\* A while loop that ends with one accession number still on the worklist.
WhileTurnLeavingLast(r, failures) ==
  IF Len(r.numbers) <= 1 THEN Returned(r)
  ELSE LET a      == StrUpper(r.numbers[Len(r.numbers)])
           popped == [r EXCEPT !.numbers = SubSeq(@, 1, Len(@) - 1),
                               !.popped = Append(@, a)]
       IN  IF a = <<>> THEN Returned(popped)
           ELSE IF Branch(a) = "invalid" THEN [popped EXCEPT !.pc = "Exit"]
           ELSE IF Branch(a) = "IndexError"
                THEN [popped EXCEPT !.pc = "IndexError"]
           ELSE IF failures = Retries
                THEN [popped EXCEPT !.pc = "Exit", !.tries = Retries,
                                    !.queried = Append(@, a)]
           ELSE Answered([popped EXCEPT !.tries = failures + 1,
                                        !.queried = Append(@, a)], a)

\* One turn of the while loop: its condition pops the last accession number
\* and upper-cases it; the query is tried until it answers, and after
\* `failures` = Retries failed tries fetch_info_with_retry raises Exit.
WhileTurn(r, failures) ==
  IF r.numbers = <<>> THEN Returned(r)
  ELSE LET a      == StrUpper(r.numbers[Len(r.numbers)])
           popped == [r EXCEPT !.numbers = SubSeq(@, 1, Len(@) - 1),
                               !.popped = Append(@, a)]
       IN  IF a = <<>> THEN Returned(popped)
           ELSE IF Branch(a) = "invalid" THEN [popped EXCEPT !.pc = "Exit"]
           ELSE IF Branch(a) = "IndexError"
                THEN [popped EXCEPT !.pc = "IndexError"]
           ELSE IF failures = Retries
                THEN [popped EXCEPT !.pc = "Exit", !.tries = Retries,
                                    !.queried = Append(@, a)]
           ELSE Answered([popped EXCEPT !.tries = failures + 1,
                                        !.queried = Append(@, a)], a)

\* ------------------------------------------------------- core/file.py
\* Largest number of Entries cataloged before the files are managed.
MaxStored == 2

\* A path is the sequence of its components from the filesystem root; a
\* component is a str: the sequence of its pieces, a leading "." being a
\* piece of its own.
\* get_app_paths: the project directory holds noah.yaml and data/.
BaseDir == << <<"proj">> >>

DataDir == BaseDir \o << <<"data">> >>

\* Path(value).name: what follows the last "/".
Basename(value) ==
  LET slashes == { i \in 1..Len(value) : value[i] = "/" }
  IN  IF slashes = {} THEN value
      ELSE SubSeq(value, (CHOOSE i \in slashes : \A j \in slashes : j <= i) + 1,
                  Len(value))

\* urlparse(value).path: without scheme and host, query and fragment.
UrlPath(value) ==
  LET rest  == IF Len(value) >= 4 /\ value[2] = ":" /\ value[3] = "/"
                    /\ value[4] = "/"
               THEN LET after == SubSeq(value, 5, Len(value))
                        at    == { i \in 1..Len(after) : after[i] = "/" }
                    IN  IF at = {} THEN <<>>
                        ELSE SubSeq(after, CHOOSE i \in at : \A j \in at : i <= j,
                                    Len(after))
               ELSE value
      marks == { i \in 1..Len(rest) : rest[i] \in {"?", "#"} }
  IN  IF marks = {} THEN rest
      ELSE SubSeq(rest, 1, (CHOOSE i \in marks : \A j \in marks : i <= j) - 1)

RECURSIVE JoinNames(_, _)
\* ", ".join of the names of the files' first sources, from the i-th on.
JoinNames(files, i) ==
  IF i > Len(files) THEN <<>>
  ELSE (IF i > 1 THEN <<", ">> ELSE <<>>)
         \o Basename(UrlPath(files[i].sources[1].value))
         \o JoinNames(files, i + 1)

\* Entry.name, as the components Path() makes of it.
EntryName(e) ==
  IF Truthy(e.project) /\ Truthy(e.experiment) /\ Truthy(e.type) /\ Truthy(e.phase)
  THEN << <<e.project>>, <<e.experiment, "@", ETypeValue(e.type)>>,
          <<EPhaseValue(e.phase)>> >>
  ELSE IF Truthy(e.identifier) THEN << <<e.identifier>> >>
  ELSE IF e.files = <<>> THEN <<>>
  ELSE <<JoinNames(e.files, 1)>>

\* get_file_directory(base_path, entry)
GetFileDirectory(base, e) == base \o EntryName(e)

\* get_file_name(file)
GetFileName(file) ==
  LET source == file.sources[1]
  IN  IF source.type \in {ESourceValue("ASPERA"), ESourceValue("LOCAL"),
                          ESourceValue("SSH")}
      THEN Basename(source.value)
      ELSE Basename(UrlPath(source.value))

\* The filesystem: the set of its nodes, each a path and what is there, a
\* directory or the content of a file.
Node(path, what) == [path |-> path, what |-> what]

Exists(fs, path) == \E n \in fs : n.path = path

IsDir(fs, path) == Node(path, Directory) \in fs

ContentAt(fs, path) == (CHOOSE n \in fs : n.path = path).what

\* path is prefix itself or lies under it.
Within(path, prefix) ==
  Len(path) >= Len(prefix) /\ SubSeq(path, 1, Len(prefix)) = prefix

\* shutil.rmtree(path)
Rmtree(fs, path) == { n \in fs : ~Within(n.path, path) }

\* glob(path / "*"): the children whose name does not start with a dot.
Glob(fs, path) ==
  { n \in fs : /\ Len(n.path) = Len(path) + 1
               /\ Within(n.path, path)
               /\ n.path[Len(n.path)][1] # "." }

\* is_empty_dir that takes every directory for empty.
IsEmptyDirAlways(fs, path) == TRUE

\* is_empty_dir(path)
IsEmptyDir(fs, path) == Glob(fs, path) = {}

RECURSIVE PruneParents(_, _)
\* for parent in directory.parents: break at the data directory, rmtree the
\* parent that is_empty_dir.
PruneParents(fs, parents) ==
  IF parents = <<>> THEN fs
  ELSE IF Head(parents) = DataDir THEN fs
  ELSE PruneParents(IF IsEmptyDir(fs, Head(parents))
                    THEN Rmtree(fs, Head(parents)) ELSE fs,
                    Tail(parents))

RECURSIVE RemoveFilesFrom(_, _, _)
\* remove_files(entries, app_paths), from the i-th Entry on: the Entry's
\* directory is removed when it is one, and then its parents (from the
\* nearest ancestor up to the root) are pruned.
RemoveFilesFrom(fs, entries, i) ==
  IF i > Len(entries) THEN fs
  ELSE LET directory == GetFileDirectory(DataDir, entries[i])
           parents   == [k \in 1..Len(directory) |->
                           SubSeq(directory, 1, Len(directory) - k)]
       IN  RemoveFilesFrom(IF IsDir(fs, directory)
                           THEN PruneParents(Rmtree(fs, directory), parents)
                           ELSE fs,
                           entries, i + 1)

RECURSIVE FileFails(_, _, _, _)
\* The loop over entry.files of check_files, from the i-th File on: whether
\* it ends by appending the Entry.
FileFails(fs, e, verify, i) ==
  IF i > Len(e.files) THEN FALSE
  ELSE LET output_path == GetFileDirectory(DataDir, e) \o <<GetFileName(e.files[i])>>
       IN  IF ~Exists(fs, output_path) THEN TRUE
           ELSE IF verify /\ GetFileHash(ContentAt(fs, output_path)) # e.files[i].checksum
                THEN TRUE
           ELSE FileFails(fs, e, verify, i + 1)

\* check_files that returns at the first Entry it flags.
CheckFilesAborting(d, fs, verify) ==
  LET flagged == SelectSeq(IterData(d), LAMBDA e : FileFails(fs, e, verify, 1))
  IN  IF flagged = <<>> THEN <<>> ELSE <<Head(flagged)>>

\* check_files(config, app_paths, verify_checksum)
CheckFiles(d, fs, verify) ==
  SelectSeq(IterData(d), LAMBDA e : FileFails(fs, e, verify, 1))

\* The Entries of the catalogs whose files are managed, and their Files.
StoredPool ==
  LET FileA == File("h1", <<Source("ftp", <<"ftp", ":", "/", "/", "host", "/",
                                             "vol1", "/", "a.gz">>),
                            Source("local", <<"/", "in", "/", "a.gz">>)>>)
      FileB == File(None, <<Source("local", <<"/", "in", "/", "b.gz">>)>>)
      FileC == File("h2", <<Source("http", <<"https", ":", "/", "/", "host", "/",
                                             "c.gz", "?", "v=1">>)>>)
  IN  { Entry("p1", "e1", "CHIP", "RAW", "SRX1", <<FileA, FileB>>),
        Entry("p1", "e1", "RNA", "RAW", "SRX2", <<FileC>>),
        Entry("p2", "e1", "CHIP", "RAW", None, <<FileA>>) }

\* The catalogs: what add_data makes of some Entries.
Catalogs ==
  { AddDataFrom(<<>>, entries, 1).data : entries \in SeqsUpTo(StoredPool, MaxStored) }

\* The project directory as `noah init` leaves it.
BareDisk ==
  { Node(<<>>, Directory), Node(BaseDir, Directory), Node(DataDir, Directory),
    Node(BaseDir \o << <<"noah.yaml">> >>, "c1") }

\* The filesystems. An Entry's directory may hold nothing, or be there with
\* each File missing or there with some content; beside it the operator may
\* have put hidden files in a project directory and in a type directory and
\* a file of notes in a project directory; the directories above all of
\* these are there.
Disks ==
  LET Materialized(e) ==
        {{}} \cup
        { {Node(GetFileDirectory(DataDir, e), Directory)}
            \cup { Node(GetFileDirectory(DataDir, e)
                          \o <<GetFileName(e.files[i])>>, c[i]) :
                     i \in { j \in 1..Len(e.files) : c[j] # Absent } } :
          c \in [1..Len(e.files) -> {Absent} \cup Contents] }
      Strays ==
        { Node(DataDir \o << <<"p1">>, <<".", "keep">> >>, "c1"),
          Node(DataDir \o << <<"p1">>, <<"e1", "@", "chip">>,
                               <<".", "DS_Store">> >>, "c1"),
          Node(DataDir \o << <<"p2">>, <<"notes.txt">> >>, "c1") }
      Ancestors(nodes) ==
        UNION { { Node(SubSeq(n.path, 1, k), Directory) :
                    k \in 0..(Len(n.path) - 1) } : n \in nodes }
      RECURSIVE Combined(_)
      Combined(pool) ==
        IF pool = {} THEN {{}}
        ELSE LET e == CHOOSE x \in pool : TRUE
             IN  { m \cup rest : m \in Materialized(e),
                                 rest \in Combined(pool \ {e}) }
  IN  { BareDisk \cup nodes \cup strays \cup Ancestors(nodes \cup strays) :
        nodes \in Combined(StoredPool), strays \in SUBSET Strays }

\* The queries of remove and uninstall whose matches are handed to
\* remove_files: everything, a project, an experiment, an identifier.
RemovalQueries ==
  { Entry(None, None, None, None, None, <<>>),
    Entry("p1", None, None, None, None, <<>>),
    Entry("p1", "e1", "CHIP", "RAW", None, <<>>),
    Entry(None, None, None, None, "SRX2", <<>>) }

\* What the DataManager call that has just returned did: the operation,
\* its Entries or its verify_checksum, the filesystem before it and the list
\* it returned.
FilesCall(op, entries, verify, pre, result) ==
  [op |-> op, entries |-> entries, verify |-> verify, pre |-> pre,
   result |-> result]

\* No DataManager call has returned that the caller has not yet taken.
NoFilesCall == FilesCall("none", <<>>, FALSE, {}, <<>>)

\* ------------------------------------- commands/install.py, commands/add.py
\* The manifest on disk is the tree its YAML holds, and whether the YAML
\* has the shape of the dataclasses (a str where a str is declared, a list
\* where a list is).
\* ConfigManager.load: yaml.load and from_dict; any exception of theirs is
\* reported and Exit(code=1) raised. A str field takes any str.
Load(m) == IF m.typed THEN Step(m.data, "ok") ELSE Step(<<>>, "Exit")

\* The run of a command: the command and its file arguments, the manifest
\* on disk now and the one the run found, the filesystem it found, the tree
\* load returned, the
\* Entries handed to add_files as it left them, the fetch_file calls made,
\* "ok" while it runs and "Done" or the exception once it has ended, and the
\* step it has taken last.
Command(op, args, saved, was, fs, loaded, entries, calls, status, at) ==
  [op |-> op, args |-> args, saved |-> saved, was |-> was, found |-> fs, loaded |-> loaded,
   entries |-> entries, calls |-> calls, status |-> status, at |-> at]

\* No command runs on the project `noah init` made.
NoCommand ==
  Command("none", [local |-> <<>>, http |-> <<>>],
          [data |-> <<>>, typed |-> TRUE],
          [data |-> <<>>, typed |-> TRUE], {}, <<>>, <<>>, <<>>, "ok", "none")

\* What the Sources of some Entries may deliver during one run: each
\* delivers nothing, no transfer from it returns, or some content whenever
\* it is asked.
Worlds(entries) ==
  [ UNION { UNION { { entries[i].files[j].sources[k] :
                        k \in 1..Len(entries[i].files[j].sources) } :
                    j \in 1..Len(entries[i].files) } :
            i \in 1..Len(entries) }
      -> {None} \cup Contents ]

RECURSIVE FetchFile(_, _)
\* fetch_file(file, path) from where f stands to its end, ascp installed:
\* every try of a Source that delivers nothing raises and leaves the
\* destination as it is, the first try of another one returns with what the
\* Source delivers. (g is f after the step.)
FetchFile(f, serves) ==
  CASE f.pc = "loop" ->
         CHOOSE end \in { FetchFile(g, serves) : g \in {TakeSource(f, TRUE)} } :
           TRUE
    [] f.pc = "try" ->
         LET c == serves[f.file.sources[f.src]]
         IN  CHOOSE end \in
               { FetchFile(g, serves) :
                   g \in { IF c = None THEN AfterTry(f, FALSE, f.dest)
                           ELSE AfterTry(f, TRUE, c) } } : TRUE
    [] f.pc = "checksum" -> VerifyOrEstablish(f)
    [] OTHER -> f

\* Where add_files stands: the filesystem, the Entries (fetch_file assigns
\* to their Files), the fetch_file calls made (the Entry, the File, the path
\* and how the call ended) and "ok" or the exception that ended the loops.
Fetched(fs, entries, calls, status) ==
  [disk |-> fs, entries |-> entries, calls |-> calls, status |-> status]

RECURSIVE AddFilesFromIgnoringFailure(_, _, _, _)
\* An add_files that catches the Exit of fetch_file and goes on with the
\* next File.
AddFilesFromIgnoringFailure(b, i, j, serves) ==
  IF i > Len(b.entries) THEN b
  ELSE IF j > Len(b.entries[i].files) THEN AddFilesFromIgnoringFailure(b, i + 1, 1, serves)
  ELSE LET file        == b.entries[i].files[j]
           output_path == GetFileDirectory(DataDir, b.entries[i])
                            \o <<GetFileName(file)>>
           fetch_file  == FetchFile(Entered(file,
                                            IF Exists(b.disk, output_path)
                                            THEN ContentAt(b.disk, output_path)
                                            ELSE Absent),
                                    serves)
           Left(f) == Rmtree(b.disk, output_path)
                        \cup { Node(SubSeq(output_path, 1, k), Directory) :
                                 k \in 0..(Len(output_path) - 1) }
                        \cup (IF f.dest = Absent THEN {}
                              ELSE {Node(output_path, f.dest)})
           After(f) == Fetched(Left(f),
                               [b.entries EXCEPT ![i].files[j] = f.file],
                               Append(b.calls, [entry |-> i, file |-> j,
                                                path |-> output_path,
                                                pc |-> f.pc]),
                               b.status)
       IN  CHOOSE end \in
             { IF after.status = "Exit" THEN after
               ELSE AddFilesFromIgnoringFailure(after, i, j + 1, serves) :
                 after \in { After(f) : f \in {fetch_file} } } : TRUE

RECURSIVE AddFilesFrom(_, _, _, _)
\* add_files(entries, app_paths) from the j-th File of the i-th Entry on.
\* fetch_file leaves at the path what the last try left there, under the
\* parents it made; the Exit it raises is caught nowhere in add_files.
\* (f is the fetch_file call at its end, after is add_files after the call.)
AddFilesFrom(b, i, j, serves) ==
  IF i > Len(b.entries) THEN b
  ELSE IF j > Len(b.entries[i].files) THEN AddFilesFrom(b, i + 1, 1, serves)
  ELSE LET file        == b.entries[i].files[j]
           output_path == GetFileDirectory(DataDir, b.entries[i])
                            \o <<GetFileName(file)>>
           fetch_file  == FetchFile(Entered(file,
                                            IF Exists(b.disk, output_path)
                                            THEN ContentAt(b.disk, output_path)
                                            ELSE Absent),
                                    serves)
           Left(f) == Rmtree(b.disk, output_path)
                        \cup { Node(SubSeq(output_path, 1, k), Directory) :
                                 k \in 0..(Len(output_path) - 1) }
                        \cup (IF f.dest = Absent THEN {}
                              ELSE {Node(output_path, f.dest)})
           After(f) == Fetched(Left(f),
                               [b.entries EXCEPT ![i].files[j] = f.file],
                               Append(b.calls, [entry |-> i, file |-> j,
                                                path |-> output_path,
                                                pc |-> f.pc]),
                               IF f.pc \in {"NoReachableSource", "Mismatch"}
                               THEN "Exit" ELSE b.status)
       IN  CHOOSE end \in
             { IF after.status = "Exit" THEN after
               ELSE AddFilesFrom(after, i, j + 1, serves) :
                 after \in { After(f) : f \in {fetch_file} } } : TRUE

RECURSIVE SharedFiles(_, _)
\* iter_data builds its Entries with files=phase.files, the list of the
\* tree itself: what fetch_file assigns to a File of such an Entry is
\* assigned to the File of the tree.
SharedFiles(d, entries) ==
  IF entries = <<>> THEN d
  ELSE LET e  == Head(entries)
           pi == DataGetItem(d, e.project)
           ei == ProjectGetItem(d[pi], e.experiment)
           ti == ExperimentGetItem(d[pi].experiments[ei], e.type)
           hi == TypeGetItem(d[pi].experiments[ei].types[ti], e.phase)
       IN  SharedFiles([d EXCEPT ![pi].experiments[ei].types[ti].phases[hi].files
                                   = e.files],
                       Tail(entries))

RECURSIVE BuildEntriesAppending(_, _, _)
\* The pairing loop keeping its Entries in a list: every Entry built is
\* appended.
BuildEntriesAppending(files, type_, entries) ==
  IF files = <<>> \/ files[Len(files)] = <<>> THEN entries
  ELSE LET pair    == files[Len(files)]
           rest    == SubSeq(files, 1, Len(files) - 1)
           n       == Len(pair)
           matches == /\ n >= 4
                      /\ pair[n] \in {".fastq", ".fastq.gz", ".fasta", ".fasta.gz"}
                      /\ pair[n - 1] \in {"1", "2"}
                      /\ pair[n - 2] \in {"_", "_r", "_R"}
           pair_target == [pair EXCEPT ![n - 1] = IF @ = "1" THEN "2" ELSE "1"]
           file(value) == File(None, <<Source(ESourceValue(type_), value)>>)
       IN  IF matches /\ \E k \in 1..Len(rest) : rest[k] = pair_target
           THEN BuildEntriesAppending(
                  SelectSeq(rest, LAMBDA x : x # pair_target), type_,
                  Append(entries,
                         Entry(None, None, None, "RAW", None,
                               IF pair[n - 1] = "1"
                               THEN <<file(pair), file(pair_target)>>
                               ELSE <<file(pair_target), file(pair)>>)))
           ELSE BuildEntriesAppending(
                  rest, type_,
                  Append(entries,
                         Entry(None, None, None, "RAW", None, <<file(pair)>>)))

RECURSIVE BuildEntries(_, _, _)
\* add.py lines 158-189 for one OrderedSet of paths and its ESource member:
\* the last path is popped; when it reads as one of a pair (a stem, "_" or
\* "_r", "1" or "2", a FASTA/FASTQ extension) and its mate is among the
\* others, the two make one Entry, mate 1 first; otherwise it makes an Entry
\* of its own. entries.add keeps the Entry unless an equal one is there.
BuildEntries(files, type_, entries) ==
  IF files = <<>> \/ files[Len(files)] = <<>> THEN entries
  ELSE LET pair    == files[Len(files)]
           rest    == SubSeq(files, 1, Len(files) - 1)
           n       == Len(pair)
           matches == /\ n >= 4
                      /\ pair[n] \in {".fastq", ".fastq.gz", ".fasta", ".fasta.gz"}
                      /\ pair[n - 1] \in {"1", "2"}
                      /\ pair[n - 2] \in {"_", "_r", "_R"}
           pair_target == [pair EXCEPT ![n - 1] = IF @ = "1" THEN "2" ELSE "1"]
           file(value) == File(None, <<Source(ESourceValue(type_), value)>>)
       IN  IF matches /\ \E k \in 1..Len(rest) : rest[k] = pair_target
           THEN BuildEntries(
                  SelectSeq(rest, LAMBDA x : x # pair_target), type_,
                  OrderedSetAdd(entries,
                                Entry(None, None, None, "RAW", None,
                                      IF pair[n - 1] = "1"
                                      THEN <<file(pair), file(pair_target)>>
                                      ELSE <<file(pair_target), file(pair)>>)))
           ELSE BuildEntries(
                  rest, type_,
                  OrderedSetAdd(entries,
                                Entry(None, None, None, "RAW", None,
                                      <<file(pair)>>)))

\* The manifests a project may hold: what save wrote of a catalog, the same
\* with a library type, a pipeline phase or a transport kind edited to a
\* string outside the vocabulary, and a file that is no manifest.
Manifests ==
  { [data |-> d, typed |-> TRUE] : d \in Catalogs }
    \cup { [data |-> <<>>, typed |-> FALSE] }
    \cup UNION {
      { [data |-> [d EXCEPT ![1].experiments[1].types[1].type = "chipseq"],
         typed |-> TRUE],
        [data |-> [d EXCEPT ![1].experiments[1].types[1].phases[1].phase
                              = "trimmed"],
         typed |-> TRUE],
        [data |-> [d EXCEPT ![1].experiments[1].types[1].phases[1].files[1]
                              .sources[1].type = "gopher"],
         typed |-> TRUE] } :
      d \in Catalogs \ {<<>>} }

\* --------------------------------------------------------- the state machine
\* What the call that has just returned did: the operation, its argument,
\* the tree before it, how it ended ("ok" or the exception), the index of
\* the Entry that raised and, for find_data, the returned list.
Call(op, args, pre, status, at, found) ==
  [op |-> op, args |-> args, pre |-> pre, status |-> status, at |-> at,
   found |-> found]

\* No call has returned that the caller has not yet consumed.
NoCall == Call("none", <<>>, <<>>, "ok", 0, <<>>)

\* Config(): data = Data() is empty.
Init ==
  /\ data = <<>>
  /\ last = NoCall
  /\ fetch = FetchIdle
  /\ derived = NoDerivation
  /\ resolver = ResolveIdle
  /\ disk = BareDisk
  /\ managed = NoFilesCall
  /\ command = NoCommand

\* ConfigManager.add_data(config, entries)
add_data ==
  /\ last = NoCall
  /\ \E entries \in SeqsUpTo(EntryPool, MaxBatch) :
       LET r == AddDataFrom(data, entries, 1) IN
       /\ data' = r.data
       /\ last' = Call("add", entries, data, r.status, r.at, <<>>)
  /\ UNCHANGED otherThanCatalog

\* ConfigManager.remove_data(config, entries)
remove_data ==
  /\ last = NoCall
  /\ \E entries \in SeqsUpTo(EntryPool, MaxBatch) :
       LET r == RemoveDataFrom(data, entries, 1) IN
       /\ data' = r.data
       /\ last' = Call("remove", entries, data, r.status, r.at, <<>>)
  /\ UNCHANGED otherThanCatalog

\* ConfigManager.find_data(config, entries)
find_data ==
  /\ last = NoCall
  /\ \E entries \in SeqsUpTo(QueryPool, MaxQueries) :
       /\ data' = data
       /\ last' = Call("find", entries, data, "ok", 0,
                       FindDataFrom(data, entries, 1, <<>>))
  /\ UNCHANGED otherThanCatalog

\* The caller takes the outcome of the call (the returned list, or the
\* exception) and goes on; the Config object keeps the tree as the call left it.
Return ==
  /\ last # NoCall
  /\ last' = NoCall
  /\ UNCHANGED <<data, otherThanCatalog>>

Next == add_data \/ remove_data \/ find_data \/ Return

Spec == Init /\ [][Next]_vars

\* ------------------------------------------- the single-file fetch machine
\* NetworkClient.fetch_file(file, path) is entered.
fetch_file ==
  /\ fetch.pc = "idle"
  /\ \E f \in FetchFiles, d \in {Absent, Directory} \cup Contents :
       fetch' = Entered(f, d)
  /\ UNCHANGED otherThanFetch

\* The for loop takes the next Source and hands it to its routine; whether
\* ascp is installed is the machine's business.
take_source ==
  /\ fetch.pc = "loop"
  /\ \E ascp \in BOOLEAN : fetch' = TakeSource(fetch, ascp)
  /\ UNCHANGED otherThanFetch

\* fetch_with_retry calls func() once more; the transfer returns, leaving
\* some content at the destination, or raises, leaving the destination as
\* it was or a part of the file there.
fetch_with_retry ==
  /\ fetch.pc = "try"
  /\ \/ \E c \in Contents : fetch' = AfterTry(fetch, TRUE, c)
     \/ \E c \in {fetch.dest, Partial} : fetch' = AfterTry(fetch, FALSE, c)
  /\ UNCHANGED otherThanFetch

\* The checksum step after the loop was left by `break`.
checksum_step ==
  /\ fetch.pc = "checksum"
  /\ fetch' = VerifyOrEstablish(fetch)
  /\ UNCHANGED otherThanFetch

\* fetch_file has returned or raised; its caller goes on.
fetch_done ==
  /\ fetch.pc \in Terminal
  /\ fetch' = FetchIdle
  /\ UNCHANGED otherThanFetch

NextFetch ==
  fetch_file \/ take_source \/ fetch_with_retry \/ checksum_step \/ fetch_done

SpecFetch == Init /\ [][NextFetch]_vars

\* The call runs on: no step of fetch_file waits for anything but the
\* transfer it made, which returns or raises.
SpecFetchFair ==
  SpecFetch /\ WF_vars(take_source \/ fetch_with_retry \/ checksum_step)

\* ---------------------------------------- the derivation of a run's Files
\* The resolver is about to derive the Files of some run.
InitDerive ==
  /\ data = <<>>
  /\ last = NoCall
  /\ fetch = FetchIdle
  /\ resolver = ResolveIdle
  /\ disk = BareDisk
  /\ managed = NoFilesCall
  /\ command = NoCommand
  /\ derived \in { Derivation("get_files_from_srr", srr, paired, "pending", <<>>) :
                     srr \in RunAccessions, paired \in BOOLEAN }

\* get_files_from_srr(srr, paired) is called and returns.
get_files_from_srr ==
  /\ derived.op = "get_files_from_srr"
  /\ derived.status = "pending"
  /\ derived' =
       IF PathRaises(derived.srr)
       THEN [derived EXCEPT !.status = "ValueError"]
       ELSE [derived EXCEPT !.status = "ok",
                            !.result = GetFilesFromSrr(derived.srr, derived.paired)]
  /\ UNCHANGED <<data, last, fetch, resolver, disk, managed, command>>

SpecDerive == InitDerive /\ [][get_files_from_srr]_vars

\* ------------------------------------------------ the accession resolver
\* NetworkClient.get_info_by_accession_number(accession_numbers) is entered:
\* numbers = OrderedSet(accession_numbers).
get_info_by_accession_number ==
  /\ resolver.pc = "idle"
  /\ \E accessions \in SeqsUpTo(AccessionPool, MaxAccessions) :
       resolver' = Resolution("loop", accessions,
                              NumbersUpdate(<<>>, accessions), <<>>, <<>>,
                              <<>>, <<>>, 0, QueryResult(<<>>, <<>>))
  /\ UNCHANGED otherThanResolver

\* One turn of the while loop, or its end; the query of the turn answers
\* with `spare` of its Retries tries to spare, none when they all failed.
while_turn ==
  /\ resolver.pc = "loop"
  /\ \E spare \in 0..Retries :
       resolver' = WhileTurn(resolver, Retries - spare)
  /\ UNCHANGED otherThanResolver

\* The call has returned its QueryResult, or raised; its caller goes on.
resolve_done ==
  /\ resolver.pc \in {"returned", "Exit", "IndexError"}
  /\ resolver' = ResolveIdle
  /\ UNCHANGED otherThanResolver

NextResolve == get_info_by_accession_number \/ while_turn \/ resolve_done

SpecResolve == Init /\ [][NextResolve]_vars

\* The loop runs on: a turn waits for nothing but its query, which answers
\* or has failed for good after Retries tries.
\* The NetworkClient serves one call at a time: a transfer or a resolution.
SpecNetwork ==
  Init /\ [][\/ resolver = ResolveIdle /\ NextFetch
             \/ fetch = FetchIdle /\ NextResolve]_vars

SpecResolveFair == SpecResolve /\ WF_vars(while_turn)

\* ------------------------------------------------- the managed data files
\* A project whose catalog was filled by add_data and whose data directory
\* holds what earlier commands and the operator left there.
InitFiles ==
  /\ data \in Catalogs
  /\ disk \in Disks
  /\ last = NoCall
  /\ fetch = FetchIdle
  /\ derived = NoDerivation
  /\ resolver = ResolveIdle
  /\ managed = NoFilesCall
  /\ command = NoCommand

\* DataManager.check_files(config, app_paths, verify_checksum)
check_files ==
  /\ managed = NoFilesCall
  /\ \E verify \in BOOLEAN :
       managed' = FilesCall("check", <<>>, verify, disk, CheckFiles(data, disk, verify))
  /\ UNCHANGED <<data, disk, otherThanFiles>>

\* DataManager.remove_files(entries, app_paths), handed what find_data found
\* for one query, as remove and uninstall do.
remove_files ==
  /\ managed = NoFilesCall
  /\ \E query \in RemovalQueries :
       LET entries == FindDataFrom(data, <<query>>, 1, <<>>) IN
       /\ disk' = RemoveFilesFrom(disk, entries, 1)
       /\ managed' = FilesCall("remove", entries, FALSE, disk, <<>>)
  /\ UNCHANGED <<data, otherThanFiles>>

\* The caller takes what the call returned and goes on.
files_done ==
  /\ managed # NoFilesCall
  /\ managed' = NoFilesCall
  /\ UNCHANGED <<data, disk, otherThanFiles>>

SpecFiles == InitFiles /\ [][check_files \/ remove_files \/ files_done]_vars

\* ------------------------------------------------------- the commands
\* A project: its manifest, and a data directory that holds nothing yet or
\* what an install left there when every Source delivered the same content.
InitCommands ==
  /\ data = <<>>
  /\ last = NoCall
  /\ fetch = FetchIdle
  /\ derived = NoDerivation
  /\ resolver = ResolveIdle
  /\ managed = NoFilesCall
  /\ \E m \in Manifests :
       /\ command = [NoCommand EXCEPT !.saved = m]
       /\ \/ disk = BareDisk
          \/ /\ m.data \in Catalogs
             /\ \E c \in Contents, serves \in Worlds(IterData(m.data)) :
                  /\ \A s \in DOMAIN serves : serves[s] = c
                  /\ disk = AddFilesFrom(Fetched(BareDisk, IterData(m.data),
                                                 <<>>, "ok"),
                                         1, 1, serves).disk

\* A command is run and loads the manifest: config_manager().load.
load ==
  /\ command.op = "none"
  /\ \E op \in {"install", "add"}, loaded \in {Load(command.saved)} :
       /\ command' = [command EXCEPT !.op = op, !.was = command.saved,
                                     !.found = disk, !.loaded = loaded.data,
                                     !.status = loaded.status, !.at = "load"]
       /\ data' = loaded.data
  /\ UNCHANGED <<last, fetch, derived, resolver, disk, managed>>

\* install.py line 37: check_files, whose iter_data raises ValueError at a
\* Type or a Phase whose string is no member's value.
install ==
  /\ command.op = "install" /\ command.at = "load" /\ command.status = "ok"
  /\ \E verify \in BOOLEAN, all \in {IterData(data)} :
       command' =
         IF \E i \in 1..Len(all) : "ValueError" \in {all[i].type, all[i].phase}
         THEN [command EXCEPT !.status = "ValueError", !.at = "check_files"]
         ELSE [command EXCEPT !.entries = CheckFiles(data, disk, verify),
                              !.at = "check_files"]
  /\ UNCHANGED <<data, last, fetch, derived, resolver, disk, managed>>

\* add.py lines 65-253 with paths of local files and URLs and no modifier:
\* Exit is raised when there is no argument; otherwise the Entries are
\* built, an attribute that is still empty is prompted for and set to the
\* answer, and the operator agrees (or --no-confirm is given).
add ==
  /\ command.op = "add" /\ command.at = "load" /\ command.status = "ok"
  /\ \E local_files \in
          SeqsUpTo({ <<"/", "in", "/", "a", "_", "1", ".fastq.gz">>,
                     <<"/", "in", "/", "a", "_", "2", ".fastq.gz">>,
                     <<"/", "in", "/", "b.gz">> }, 2),
        http_files \in
          SeqsUpTo({ <<"https", ":", "/", "/", "host", "/", "c.gz", "?",
                       "v=1">> }, 1),
        project \in {"p1", "p3"} :
       /\ \A i, j \in 1..Len(local_files) :
            local_files[i] = local_files[j] => i = j
       /\ \E built \in { BuildEntries(http_files, "HTTP",
                                     BuildEntries(local_files, "LOCAL", <<>>)) } :
            command' =
              [command EXCEPT
                 !.args = [local |-> local_files, http |-> http_files],
                 !.entries =
                   [i \in 1..Len(built) |->
                      [built[i] EXCEPT
                         !.project    = IF Truthy(@) THEN @ ELSE project,
                         !.experiment = IF Truthy(@) THEN @ ELSE "e1",
                         !.type       = IF Truthy(@) THEN @ ELSE "CHIP"]],
                 !.status = IF built = <<>> THEN "Exit" ELSE "ok",
                 !.at = IF built = <<>> THEN "arguments"
                        ELSE "confirm_or_quit"]
  /\ UNCHANGED <<data, last, fetch, derived, resolver, disk, managed>>

\* data_manager().add_files(entries, app_paths), the last step of install
\* and the next one of add. The Entries of install are those of iter_data.
add_files ==
  /\ command.at \in {"check_files", "confirm_or_quit"} /\ command.status = "ok"
  /\ \E serves \in Worlds(command.entries) :
       \E b \in { AddFilesFrom(Fetched(disk, command.entries, <<>>, "ok"),
                               1, 1, serves) } :
         /\ command' =
              [command EXCEPT
                 !.entries = b.entries, !.calls = b.calls, !.at = "add_files",
                 !.status = IF b.status # "ok" THEN b.status
                            ELSE IF command.op = "install" THEN "Done"
                            ELSE "ok"]
         /\ disk' = b.disk
         /\ data' = IF command.op = "install"
                    THEN SharedFiles(data, b.entries) ELSE data
  /\ UNCHANGED <<last, fetch, derived, resolver, managed>>

\* add.py lines 255-256: config_manager().add_data and, unless it raised,
\* which ends the run, save, which writes the tree.
save ==
  /\ command.op = "add" /\ command.at = "add_files" /\ command.status = "ok"
  /\ \E r \in { AddDataFrom(data, command.entries, 1) } :
       /\ command' =
            IF r.status = "ok"
            THEN [command EXCEPT !.status = "Done", !.at = "save",
                                 !.saved = [data |-> r.data, typed |-> TRUE]]
            ELSE [command EXCEPT !.status = r.status, !.at = "add_data"]
       /\ data' = r.data
  /\ UNCHANGED <<last, fetch, derived, resolver, disk, managed>>

SpecCommands ==
  InitCommands /\ [][load \/ install \/ add \/ add_files \/ save]_vars

\* ------------------------------------------------- vocabulary of the claims
\* The elements of a sequence.
ToSet(s) == {s[i] : i \in 1..Len(s)}

\* The catalog Entries of a tree, read off node by node.
TreeEntries(d) ==
  UNION { UNION { UNION {
    { Entry(d[a].project, d[a].experiments[b].experiment,
            TypeEnum(d[a].experiments[b].types[c].type),
            PhaseEnum(d[a].experiments[b].types[c].phases[h].phase),
            d[a].experiments[b].types[c].phases[h].identifier,
            d[a].experiments[b].types[c].phases[h].files) :
        h \in 1..Len(d[a].experiments[b].types[c].phases) } :
      c \in 1..Len(d[a].experiments[b].types) } :
    b \in 1..Len(d[a].experiments) } :
  a \in 1..Len(d) }

\* The (project, experiment, type, phase) paths of a tree.
TreePaths(d) == {EntryKey(e) : e \in TreeEntries(d)}

\* The paths of the first n Entries of a sequence.
PathsBefore(entries, n) == {EntryKey(entries[j]) : j \in 1..(n - 1)}

\* No two Entries of the sequence lie on the same path.
DistinctPaths(entries) ==
  \A i, j \in 1..Len(entries) : i # j => ~EntryEq(entries[i], entries[j])

\* The number of Entries of the last call that were processed without error.
Processed == IF last.status = "ok" THEN Len(last.args) ELSE last.at - 1

\* The query Entry() that sets neither identifier nor project.
Wildcard == Entry(None, None, None, None, None, <<>>)

\* ------------------------------------------------------------------- C1
\* C1: starting from an empty catalog, add_data of Entries with pairwise
\* distinct paths succeeds, and find_data with the wildcard query then
\* returns exactly the added Entries, each once.
C1_AddThenFindAll ==
  (last.op = "add" /\ last.pre = <<>> /\ DistinctPaths(last.args)) =>
    LET found == FindDataFrom(data, <<Wildcard>>, 1, <<>>) IN
    /\ last.status = "ok"
    /\ ToSet(found) = ToSet(last.args)
    /\ Len(found) = Len(last.args)

C1_Witness ==
  /\ last.op = "add" /\ last.pre = <<>> /\ last.status = "ok"
  /\ Len(last.args) >= 2 /\ DistinctPaths(last.args)
  /\ \E i \in 1..Len(last.args) : last.args[i].identifier = None

\* ------------------------------------------------------------------- C2
\* The index of the first Entry whose path is already in the tree or was
\* added by an earlier Entry of the same call; 0 when there is none.
FirstDuplicate(pre, entries) ==
  FirstIndex({i \in 1..Len(entries) :
                EntryKey(entries[i]) \in TreePaths(pre) \cup PathsBefore(entries, i)})

\* C2: add_data raises the duplicate-entry error at the first Entry whose
\* path already exists and only then; the tree then holds what it held before
\* plus the Entries before the failing one, and is exactly the tree that
\* adding those earlier Entries alone produces.
C2_AddStopsAtFirstDuplicate ==
  last.op = "add" =>
    LET k == FirstDuplicate(last.pre, last.args) IN
    IF k = 0 THEN last.status = "ok"
    ELSE /\ last.status = "Exit"
         /\ last.at = k
         /\ TreeEntries(data) =
              TreeEntries(last.pre) \cup {last.args[j] : j \in 1..(k - 1)}
         /\ data = AddDataFrom(last.pre, SubSeq(last.args, 1, k - 1), 1).data

C2_Witness ==
  /\ last.op = "add" /\ last.status = "Exit"
  /\ last.at = 2 /\ Len(last.args) = 3
  /\ data # last.pre
  /\ EntryKey(last.args[3]) \notin TreePaths(last.pre) \cup PathsBefore(last.args, 3)

\* ------------------------------------------------------------------- C3
\* The orders in which the Entries of a sequence can be listed.
Orders(entries) ==
  {s \in [1..Len(entries) -> ToSet(entries)] : ToSet(s) = ToSet(entries)}

\* C3: when the tree is what add_data made of a set of Entries with distinct
\* paths on an empty catalog, remove_data of the same Entries, in any order,
\* succeeds and leaves the catalog empty.
C3_RemoveInvertsAdd ==
  ( /\ last.op = "remove"
    /\ DistinctPaths(last.args)
    /\ \E s \in Orders(last.args) :
         AddDataFrom(<<>>, s, 1) = Result(last.pre, "ok", 0) ) =>
    /\ last.status = "ok"
    /\ data = <<>>

C3_Witness ==
  /\ last.op = "remove" /\ last.status = "ok"
  /\ Len(last.args) = 3 /\ DistinctPaths(last.args)
  /\ AddDataFrom(<<>>, last.args, 1) # Result(last.pre, "ok", 0)
  /\ \E s \in Orders(last.args) :
       AddDataFrom(<<>>, s, 1) = Result(last.pre, "ok", 0)
  /\ data = <<>>

\* ------------------------------------------------------------------- C4
\* The index of the first Entry whose path is not in the tree or was removed
\* by an earlier Entry of the same call; 0 when there is none.
FirstMissing(pre, entries) ==
  FirstIndex({i \in 1..Len(entries) :
                EntryKey(entries[i]) \notin TreePaths(pre) \ PathsBefore(entries, i)})

\* C4: remove_data raises the missing-entry error at the first Entry whose
\* path does not resolve to a Phase and only then; the failing Entry changes
\* nothing and the removals of the Entries before it are kept.
C4_RemoveStopsAtFirstMissing ==
  last.op = "remove" =>
    LET k == FirstMissing(last.pre, last.args) IN
    IF k = 0 THEN last.status = "ok"
    ELSE /\ last.status = "Exit"
         /\ last.at = k
         /\ TreeEntries(data) =
              {e \in TreeEntries(last.pre) :
                 EntryKey(e) \notin PathsBefore(last.args, k)}
         /\ data = RemoveDataFrom(last.pre, SubSeq(last.args, 1, k - 1), 1).data

C4_Witness ==
  /\ last.op = "remove" /\ last.status = "Exit"
  /\ last.at = 2 /\ Len(last.args) = 3
  /\ data # last.pre
  /\ EntryKey(last.args[3]) \in TreePaths(data)

\* ------------------------------------------------------------------- C5
\* No Project without Experiments, no Experiment without Types, no Type
\* without Phases.
NoEmptyNode(d) ==
  \A a \in 1..Len(d) :
    /\ Len(d[a].experiments) > 0
    /\ \A b \in 1..Len(d[a].experiments) :
         /\ Len(d[a].experiments[b].types) > 0
         /\ \A c \in 1..Len(d[a].experiments[b].types) :
              Len(d[a].experiments[b].types[c].phases) > 0

\* C5: no call of add_data or remove_data, failed ones included, leaves an
\* empty Type, Experiment or Project; and remove_data prunes no further than
\* that: every Entry it was not asked to remove is still listed, in the
\* order it had.
C5_CascadePrune ==
  /\ NoEmptyNode(data)
  /\ last.op = "remove" =>
       IterData(data) =
         SelectSeq(IterData(last.pre),
                   LAMBDA e : EntryKey(e) \notin PathsBefore(last.args, Processed + 1))

\* A removal emptied a Type and its Experiment and stopped at the Project,
\* which kept its other Experiment.
C5_Witness ==
  /\ last.op = "remove" /\ last.status = "ok" /\ Len(last.args) = 1
  /\ \E a \in 1..Len(last.pre), b \in 1..Len(data) :
       /\ data[b].project = last.pre[a].project
       /\ Len(last.pre[a].experiments) = 2
       /\ Len(data[b].experiments) = 1

\* ------------------------------------------------------------------- C6
\* C6: Project names are unique in the catalog, Experiment names within a
\* Project, Types within an Experiment and Phases within a Type, so no path
\* is listed twice.
C6_UniqueNames ==
  /\ \A a1, a2 \in 1..Len(data) : a1 # a2 => data[a1].project # data[a2].project
  /\ \A a \in 1..Len(data) :
       LET es == data[a].experiments IN
       /\ \A b1, b2 \in 1..Len(es) : b1 # b2 => es[b1].experiment # es[b2].experiment
       /\ \A b \in 1..Len(es) :
            LET ts == es[b].types IN
            /\ \A c1, c2 \in 1..Len(ts) : c1 # c2 => ts[c1].type # ts[c2].type
            /\ \A c \in 1..Len(ts) :
                 LET hs == ts[c].phases IN
                 \A h1, h2 \in 1..Len(hs) : h1 # h2 => hs[h1].phase # hs[h2].phase
  /\ Cardinality(TreePaths(data)) = Len(IterData(data))

\* A duplicate was offered to a tree of several Projects and rejected.
C6_Witness ==
  /\ last.op = "add" /\ last.status = "Exit"
  /\ Len(data) = 2 /\ Len(IterData(data)) >= 4

\* ------------------------------------------------------------------- C7
\* C7 as claimed: no Phase of the tree has an empty file list.
C7_NoPhaseWithoutFiles ==
  \A e \in TreeEntries(data) : e.files # <<>>

\* C7 as amended: add_data and remove_data neither prune a Phase for having
\* no Files nor empty a Phase: a Phase without Files is in the tree only if
\* it was there before the call or the call added it from an Entry without
\* Files, and every Entry without Files that add_data processed is stored as
\* it was given.
C7_PhaseWithoutFilesIsKept ==
  last.op \in {"add", "remove"} =>
    /\ \A e \in TreeEntries(data) :
         e.files = <<>> =>
           \/ e \in TreeEntries(last.pre)
           \/ last.op = "add" /\ \E j \in 1..Processed : last.args[j] = e
    /\ last.op = "add" =>
         \A j \in 1..Processed :
           last.args[j].files = <<>> => last.args[j] \in TreeEntries(data)

C7_Witness ==
  /\ last.op = "add" /\ last.status = "ok"
  /\ \E j \in 1..Len(last.args) :
       /\ last.args[j].files = <<>>
       /\ last.args[j] \in TreeEntries(data)
  /\ \E e \in TreeEntries(data) : e.files # <<>>

\* ------------------------------------------------------------------- C8
\* C8: when every query Entry carries an identifier, find_data returns
\* exactly the catalog Entries that carry one of those identifiers, each
\* once, whatever the path fields of the queries are; an identifier nobody
\* carries adds nothing.
C8_IdentifierFirst ==
  ( /\ last.op = "find"
    /\ Len(last.args) >= 1
    /\ \A i \in 1..Len(last.args) : last.args[i].identifier # None ) =>
    /\ last.status = "ok"
    /\ ToSet(last.found) =
         {e \in TreeEntries(data) :
            \E i \in 1..Len(last.args) : e.identifier = last.args[i].identifier}
    /\ Cardinality(ToSet(last.found)) = Len(last.found)

\* An identifier query whose path fields point elsewhere finds the Entry
\* where it lives.
C8_Witness ==
  /\ last.op = "find" /\ Len(last.args) = 1
  /\ last.args[1].identifier # None /\ last.args[1].project # None
  /\ Len(last.found) >= 2
  /\ \A i \in 1..Len(last.found) : last.found[i].project # last.args[1].project
  /\ \E e \in TreeEntries(data) : e.identifier # last.args[1].identifier

\* ------------------------------------------------------------------- C9
\* Every level the query sets must agree, every level it leaves unset is free.
EveryLevelMatches(q, e) ==
  /\ e.project = q.project
  /\ q.experiment = None \/ e.experiment = q.experiment
  /\ q.type = None \/ e.type = q.type
  /\ q.phase = None \/ e.phase = q.phase

\* The levels the query sets must agree down to its first unset level;
\* what it sets below that level is not looked at.
PrefixMatches(q, e) ==
  /\ e.project = q.project
  /\ q.experiment = None \/
       /\ e.experiment = q.experiment
       /\ q.type = None \/
            /\ e.type = q.type
            /\ q.phase = None \/ e.phase = q.phase

\* A query Entry without identifier and with a project.
IsPathQuery(q) == q.identifier = None /\ q.project # None

\* C9 as claimed: for a query without identifier and with a project,
\* find_data returns the catalog Entries that agree with every level the
\* query sets.
C9_EveryLevelFilters ==
  (last.op = "find" /\ Len(last.args) = 1 /\ IsPathQuery(last.args[1])) =>
    ToSet(last.found) =
      {e \in TreeEntries(data) : EveryLevelMatches(last.args[1], e)}

\* C9 as amended: for queries without identifier and with a project,
\* find_data descends only as far as the levels are set without a gap: it
\* returns the catalog Entries that agree with the query down to its first
\* unset level among experiment, type and phase, and ignores what the query
\* sets below that level.
C9_PrefixFilters ==
  ( /\ last.op = "find"
    /\ Len(last.args) >= 1
    /\ \A i \in 1..Len(last.args) : IsPathQuery(last.args[i]) ) =>
    ToSet(last.found) =
      {e \in TreeEntries(data) :
         \E i \in 1..Len(last.args) : PrefixMatches(last.args[i], e)}

\* Project and type set, experiment unset: Entries of another type are found.
C9_Witness ==
  /\ last.op = "find" /\ Len(last.args) = 1 /\ IsPathQuery(last.args[1])
  /\ last.args[1].experiment = None /\ last.args[1].type # None
  /\ \E i, j \in 1..Len(last.found) :
       /\ last.found[i].type # last.args[1].type
       /\ last.found[j].type = last.args[1].type

\* ------------------------------------------------------------------ C10
\* The position of the first Entry on a path in a sequence of Entries.
FirstPos(s, key) == FirstIndex({i \in 1..Len(s) : EntryKey(s[i]) = key})

\* What the query Entries of the last call match one by one, in query order.
MatchedInOrder ==
  Flatten([k \in 1..Len(last.args) |->
             FindDataFrom(data, <<last.args[k]>>, 1, <<>>)])

\* C10: find_data lists no path twice, lists exactly the paths some query
\* Entry matches, each with the catalog Entry first matched on it, and in
\* the order of their first match.
C10_DedupFirstSeen ==
  last.op = "find" =>
    LET found == last.found
        all == MatchedInOrder
    IN /\ \A i, j \in 1..Len(found) : i # j => ~EntryEq(found[i], found[j])
       /\ {EntryKey(e) : e \in ToSet(found)} = {EntryKey(e) : e \in ToSet(all)}
       /\ ToSet(found) \subseteq TreeEntries(data)
       /\ \A i \in 1..Len(found) :
            found[i] = all[FirstPos(all, EntryKey(found[i]))]
       /\ \A i, j \in 1..Len(found) :
            i < j => FirstPos(all, EntryKey(found[i])) <
                     FirstPos(all, EntryKey(found[j]))

\* Two queries, by identifier and by path, that match a common Entry; the
\* second query's first match is one already listed.
C10_Witness ==
  /\ last.op = "find" /\ Len(last.args) = 2
  /\ last.args[1].identifier # None /\ last.args[2].identifier = None
  /\ Len(last.found) >= 3
  /\ Len(MatchedInOrder) > Len(last.found)
  /\ LET second == FindDataFrom(data, <<last.args[2]>>, 1, <<>>) IN
     /\ \E i \in 1..Len(last.found) : i > 1 /\ EntryEq(last.found[i], second[1]) /\ i < Len(last.found)

\* ------------------------------------------ vocabulary of the fetch claims
\* The Sources the File listed when fetch_file was entered.
Listed == fetch.given.sources

\* The transport kinds of the closed vocabulary.
KnownKinds == {"aspera", "ftp", "http", "local", "ssh"}

\* Source j completed: some transfer of it returned without error.
Completed(j) ==
  \E k \in 1..Len(fetch.log) : fetch.log[k].source = j /\ fetch.log[k].ok

\* Source j was given up: its routine raised before any transfer, or its
\* last allowed try raised.
GaveUp(j) ==
  \E k \in 1..Len(fetch.log) :
    /\ fetch.log[k].source = j
    /\ ~fetch.log[k].ok
    /\ fetch.log[k].try \in {0, Retries}

\* Source j failed: it did not complete, and if its kind can be fetched at
\* all it was tried and given up.
SourceFailed(j) ==
  /\ ~Completed(j)
  /\ Listed[j].type \in KnownKinds => GaveUp(j)

\* fetch_file has ended with success: it returned to its caller.
Succeeded == fetch.pc \in {"Verified", "Established"}

\* C11: fetch_file tries the Sources of a File strictly in their listed
\* order: the attempts never go back to an earlier Source, a Source is
\* attempted only after every Source before it has failed, the first Source
\* that completes is the last one attempted, and once a Source has completed
\* the failures of the Sources before it are no error to the caller: the
\* call succeeds, unless the fetched file contradicts the File's checksum.
C11_SourcesInListedOrder ==
  /\ \A k, l \in 1..Len(fetch.log) :
       k < l => fetch.log[k].source <= fetch.log[l].source
  /\ \A k \in 1..Len(fetch.log) :
       /\ fetch.log[k].source \in 1..Len(Listed)
       /\ \A j \in 1..(fetch.log[k].source - 1) : SourceFailed(j)
       /\ fetch.log[k].ok => k = Len(fetch.log)
  /\ (fetch.pc \in Terminal /\ \E j \in 1..Len(Listed) : Completed(j)) =>
       \/ Succeeded
       \/ /\ fetch.pc = "Mismatch"
          /\ Truthy(fetch.given.checksum)
          /\ GetFileHash(fetch.dest) # fetch.given.checksum

\* Sources [A fails, B succeeds]: A was tried Retries times, B completed at
\* its first try, and the call returned.
C11_Witness ==
  /\ Succeeded
  /\ Len(Listed) = 2
  /\ fetch.log = <<Attempt(1, 1, FALSE), Attempt(1, 2, FALSE),
                   Attempt(1, 3, FALSE), Attempt(2, 1, TRUE)>>

\* Some listed Source completed.
SomeCompleted == \E j \in 1..Len(Listed) : Completed(j)

\* The terminal state the run of a fetch_file call has earned.
Earned ==
  IF ~SomeCompleted THEN "NoReachableSource"
  ELSE IF ~Truthy(fetch.given.checksum) THEN "Established"
  ELSE IF GetFileHash(fetch.dest) = fetch.given.checksum THEN "Verified"
  ELSE "Mismatch"

CarriedChecksum == Truthy(fetch.given.checksum)

\* The MD5 digest of the file now at the destination path.
DigestAtDestination == Md5(fetch.dest)

\* C13: after a successful fetch of a File that had no checksum, the File's
\* checksum is the digest of the file now at the destination path; and a
\* fetch of a File that carried a checksum, whose fetched file has that
\* digest, succeeds and leaves the checksum as it was.
C13_FirstFetchEstablishes ==
  /\ (Succeeded /\ ~CarriedChecksum) =>
       /\ fetch.dest \in Contents
       /\ fetch.file.checksum = DigestAtDestination
  /\ (fetch.pc \in Terminal /\ SomeCompleted /\ CarriedChecksum
        /\ DigestAtDestination = fetch.given.checksum) =>
       /\ Succeeded
       /\ fetch.file.checksum = fetch.given.checksum

\* A File without checksum was fetched from its second Source and now
\* carries the digest of what that Source delivered.
C13_Witness ==
  /\ fetch.pc = "Established"
  /\ fetch.given.checksum = None
  /\ Completed(2)
  /\ fetch.dest = "c2"
  /\ fetch.file.checksum = "h2"

\* C14: a fetch never overwrites a checksum the File already carries:
\* throughout and after every fetch_file call on such a File, however it
\* ends, the checksum is the one it had before; and a fetch whose transfers
\* all fail leaves a File without checksum without one.
C14_ChecksumNeverOverwritten ==
  /\ (fetch.pc # "idle" /\ CarriedChecksum) =>
       fetch.file.checksum = fetch.given.checksum
  /\ (fetch.pc = "NoReachableSource" /\ ~CarriedChecksum) =>
       /\ fetch.file.checksum = fetch.given.checksum
       /\ ~Truthy(fetch.file.checksum)

\* A File carrying checksum h1 was fetched, the file delivered has another
\* digest, the call ended in Mismatch and the checksum is still h1.
C14_Witness ==
  /\ fetch.pc = "Mismatch"
  /\ fetch.given.checksum = "h1"
  /\ fetch.dest = "c2"
  /\ fetch.file.checksum = "h1"

\* ----------------------------------- vocabulary of the derivation claims
SRR000001 == <<"S", "R", "R", "0", "0", "0", "0", "0", "1">>

SRR1 == <<"S", "R", "R", "1">>

\* get_files_from_srr has returned the Files of accession srr.
DerivedFrom(srr, paired) ==
  /\ derived.op = "get_files_from_srr"
  /\ derived.status = "ok"
  /\ derived.srr = srr
  /\ derived.paired = paired

\* File f carries an accelerated-transfer Source and an FTP Source that both
\* point at the object path rel under their service roots.
BothPointAt(f, rel) ==
  /\ Len(f.sources) = 2
  /\ f.sources[1] = Source("aspera", AsperaRoot \o rel)
  /\ f.sources[2] = Source("ftp", FtpRoot \o rel)

\* SRR000/001/SRR000001/SRR000001 and SRR000/SRR000001/SRR000001
WithSubfolder ==
  <<"S", "R", "R", "0", "0", "0", "/", "0", "0", "1", "/">>
    \o SRR000001 \o <<"/">> \o SRR000001

WithoutSubfolder ==
  <<"S", "R", "R", "0", "0", "0", "/">> \o SRR000001 \o <<"/">> \o SRR000001

\* For SRR1 the path has no numeric folder: SRR1/SRR1/SRR1.
SRR1Omits ==
  DerivedFrom(SRR1, TRUE) =>
    /\ Len(derived.result) = 2
    /\ BothPointAt(derived.result[1],
                   SRR1 \o <<"/">> \o SRR1 \o <<"/">> \o SRR1 \o <<"_1.fastq.gz">>)
    /\ BothPointAt(derived.result[2],
                   SRR1 \o <<"/">> \o SRR1 \o <<"/">> \o SRR1 \o <<"_2.fastq.gz">>)

\* C18 as stated: for the paired run SRR000001 the two Sources of the first
\* File point at SRR000/001/SRR000001/SRR000001_1.fastq.gz, those of the
\* second at ..._2.fastq.gz; for SRR1 the numeric folder is omitted.
C18_NineCharsWithSubfolder ==
  /\ DerivedFrom(SRR000001, TRUE) =>
       /\ Len(derived.result) = 2
       /\ BothPointAt(derived.result[1], WithSubfolder \o <<"_1.fastq.gz">>)
       /\ BothPointAt(derived.result[2], WithSubfolder \o <<"_2.fastq.gz">>)
  /\ SRR1Omits

\* C18, amended: SRR000001 has 9 characters, not more, so its path has no
\* numeric folder either: for the paired run SRR000001 the two Sources of
\* the first File point at SRR000/SRR000001/SRR000001_1.fastq.gz, those of
\* the second at ..._2.fastq.gz; for SRR1 the numeric folder is omitted.
C18_NineCharsWithoutSubfolder ==
  /\ DerivedFrom(SRR000001, TRUE) =>
       /\ Len(derived.result) = 2
       /\ BothPointAt(derived.result[1], WithoutSubfolder \o <<"_1.fastq.gz">>)
       /\ BothPointAt(derived.result[2], WithoutSubfolder \o <<"_2.fastq.gz">>)
  /\ SRR1Omits

\* The Files of the paired run SRR000001 have been derived.
C18_Witness ==
  /\ DerivedFrom(SRR000001, TRUE)
  /\ Len(derived.result) = 2

\* ------------------------------------- vocabulary of the resolver claims
\* The three families of accession numbers: ENCODE experiments, GEO series
\* and samples, SRA studies, runs, samples and experiments.
InEncodeFamily(a) == StartsWith(a, <<"E", "N", "C", "S", "R">>)

InGeoFamily(a) ==
  StartsWith(a, <<"G", "S", "E">>) \/ StartsWith(a, <<"G", "S", "M">>)

InSraFamily(a) ==
  /\ Len(a) >= 3
  /\ a[1] \in {"D", "E", "S"}
  /\ a[2] = "R"
  /\ a[3] \in {"P", "R", "S", "X"}

OfNoFamily(a) == ~InEncodeFamily(a) /\ ~InGeoFamily(a) /\ ~InSraFamily(a)

\* The call has aborted: it raised instead of returning.
Aborted == resolver.pc \in {"Exit", "IndexError"}

\* C15: an accession number of the worklist that is of none of the three
\* families is a hard error: when the resolver takes it from the worklist
\* the call aborts at once; it returns no Entries and no mappings, not those
\* resolved before either, and no accession number is taken or queried
\* after it, so the pending ones never are.
C15_UnknownFamilyAborts ==
  \A k \in 1..Len(resolver.popped) :
    (resolver.popped[k] # <<>> /\ OfNoFamily(resolver.popped[k])) =>
      /\ Aborted
      /\ k = Len(resolver.popped)
      /\ \A q \in 1..Len(resolver.queried) :
           resolver.queried[q] # resolver.popped[k]
      /\ resolver.result = QueryResult(<<>>, <<>>)

\* An accession number of no family was reached after an Entry had been
\* generated, while another accession number was still pending.
C15_Witness ==
  /\ resolver.pc = "Exit"
  /\ resolver.popped # <<>>
  /\ resolver.popped[Len(resolver.popped)] = Acc.GPL1
  /\ resolver.entries # <<>>
  /\ resolver.numbers # <<>>

\* The call has returned a QueryResult.
HasReturned == resolver.pc = "returned"

\* The accession numbers a list holds.
Held(list) == {list[i] : i \in 1..Len(list)}

\* The Entries returned for experiment x.
ReturnedFor(x) ==
  { i \in 1..Len(resolver.result.entries) :
      resolver.result.entries[i].identifier = x }

\* The accession numbers returned as equivalent to experiment x.
EquivalentsOf(x) ==
  IF x \in DOMAIN resolver.result.mappings
  THEN Held(resolver.result.mappings[x])
  ELSE {}

\* C16: when a series resolves to two samples that both resolve to the same
\* experiment, the resolver returns exactly one Entry for that experiment,
\* and the mappings of the experiment's identifier hold both samples.
C16_SamplesOfOneExperiment ==
  HasReturned =>
    \A g \in Held(resolver.queried) :
      \A s1, s2 \in Held(GseToGsm(g)) :
        \A x \in Held(GsmToSrx(s1)) \cap Held(GsmToSrx(s2)) :
          (s1 # s2 /\ SraMetadata(x) # <<>>) =>
            /\ Cardinality(ReturnedFor(x)) = 1
            /\ {s1, s2} \subseteq EquivalentsOf(x)

\* Series GSE1 was resolved: its samples GSM1 and GSM2 both led to
\* experiment SRX1, and one Entry came back.
C16_Witness ==
  /\ HasReturned
  /\ resolver.given = <<Acc.GSE1>>
  /\ resolver.queried = <<Acc.GSE1, Acc.GSM2, Acc.SRX1, Acc.GSM1, Acc.SRX1>>
  /\ Len(resolver.result.entries) = 1

\* What a service answers to an accession number: the accession numbers it
\* leads to, one step down the resolution chain.
StepsDown(a) ==
  IF InEncodeFamily(a)
  THEN { SliceFrom(EncodeDbxrefs(a)[i], 4) : i \in 1..Len(EncodeDbxrefs(a)) }
  ELSE IF StartsWith(a, <<"G", "S", "E">>) THEN Held(GseToGsm(a))
  ELSE IF StartsWith(a, <<"G", "S", "M">>) THEN Held(GsmToSrx(a))
  ELSE IF InSraFamily(a)
  THEN { SraMetadata(a)[i].experiment_accession : i \in 1..Len(SraMetadata(a)) }
  ELSE {}

RECURSIVE LeadsToWithin(_, _, _)
\* Accession number a leads to x in at most n steps down the chain.
LeadsToWithin(a, x, n) ==
  \/ a = x
  \/ n > 0 /\ \E b \in StepsDown(a) : LeadsToWithin(b, x, n - 1)

\* The longest chain: study page, series, sample, experiment.
LeadsTo(a, x) == LeadsToWithin(a, x, 4)

\* An experiment-level accession number: [DES]RX and digits.
ExperimentLevel(a) == InSraFamily(a) /\ a[3] = "X"

\* A modifier with this key matches Entry e (commands/add.py): the key is
\* the Entry's identifier or is held by its mappings.
ModifierMatches(key, e) ==
  key = e.identifier \/ key \in EquivalentsOf(e.identifier)

\* C17: the mappings the resolver returns are keyed by experiment-level
\* accession numbers only, and for every returned Entry the list under its
\* identifier holds its study, sample and run accessions and every series
\* and sample accession number on the resolution chain that led to it, so
\* that a modifier keyed by the accession number the caller supplied matches
\* the Entry.
C17_MappingsHoldTheChain ==
  HasReturned =>
    /\ \A k \in DOMAIN resolver.result.mappings : ExperimentLevel(k)
    /\ \A i \in 1..Len(resolver.result.entries) :
         LET e == resolver.result.entries[i] IN
         /\ \A q \in Held(resolver.queried) :
              \A j \in 1..Len(SraMetadata(q)) :
                SraMetadata(q)[j].experiment_accession = e.identifier =>
                  {SraMetadata(q)[j].study_accession,
                   SraMetadata(q)[j].sample_accession,
                   SraMetadata(q)[j].run_accession}
                    \subseteq EquivalentsOf(e.identifier)
         /\ \A q \in Held(resolver.queried) :
              (InGeoFamily(q) /\ LeadsTo(q, e.identifier)) =>
                q \in EquivalentsOf(e.identifier)
         /\ \A g \in Held(resolver.given) :
              LeadsTo(StrUpper(g), e.identifier) =>
                ModifierMatches(StrUpper(g), e)

\* ------------------------------------------------ claims on the file manager
\* The nodes the remove_files call that has just returned took away.
RemovedNodes == managed.pre \ disk

\* The directories of the Entries the call was given that were there.
EntryDirectories ==
  { d \in { DataDir \o EntryName(managed.entries[i]) :
              i \in 1..Len(managed.entries) } : IsDir(managed.pre, d) }

\* The path lies strictly below the data directory.
BelowDataDir(path) == Len(path) > Len(DataDir) /\ Within(path, DataDir)

\* The node is an Entry's directory or lies in one.
UnderEntryDirectory(n) == \E d \in EntryDirectories : Within(n.path, d)

\* The path is a proper ancestor of an Entry's directory, below the data
\* directory.
AboveEntryDirectory(path) ==
  /\ BelowDataDir(path)
  /\ \E d \in EntryDirectories : Len(path) < Len(d) /\ Within(d, path)

\* A name that starts with a dot.
HiddenName(component) == component[1] = "."

\* The node is a hidden child of an ancestor of an Entry's directory, or
\* lies under such a child.
HiddenInAncestor(n) ==
  \E k \in 2..Len(n.path) :
    HiddenName(n.path[k]) /\ AboveEntryDirectory(SubSeq(n.path, 1, k - 1))

\* What every remove_files call does, whatever it takes for empty: nothing
\* appears, nothing of the Entries' directories stays, and the data
\* directory, what is above it and what is beside it stay.
RemovesEntriesKeepsRoot ==
  /\ disk \subseteq managed.pre
  /\ \A n \in disk : ~UnderEntryDirectory(n)
  /\ \A n \in managed.pre : ~BelowDataDir(n.path) => n \in disk

\* C19 as stated: remove_files deletes each Entry's directory and beyond
\* that removes only ancestor directories that were left with nothing at all
\* in them, never the data directory nor anything above it; whatever else a
\* non-empty ancestor holds stays.
C19_OnlyEmptyAncestorsRemoved ==
  managed.op = "remove" =>
    /\ RemovesEntriesKeepsRoot
    /\ \A n \in RemovedNodes :
         \/ UnderEntryDirectory(n)
         \/ n.what = Directory /\ AboveEntryDirectory(n.path)

\* C19: remove_files deletes each Entry's directory and beyond that removes
\* only ancestor directories left without a visible child, together with the
\* hidden entries (names starting with a dot) they still held; it never
\* deletes the data directory nor anything above it, and an ancestor that
\* still has a visible child stays with all its contents.
C19_OnlyAncestorsWithoutVisibleChild ==
  managed.op = "remove" =>
    /\ RemovesEntriesKeepsRoot
    /\ \A n \in RemovedNodes :
         \/ UnderEntryDirectory(n)
         \/ n.what = Directory /\ AboveEntryDirectory(n.path)
         \/ HiddenInAncestor(n)

\* A remove_files call has taken a type directory away together with the
\* hidden file it held, and has left a project directory that still holds a
\* visible file.
C19_Witness ==
  /\ managed.op = "remove"
  /\ \E n \in RemovedNodes :
       /\ HiddenInAncestor(n)
       /\ ~UnderEntryDirectory(n)
       /\ Node(SubSeq(n.path, 1, Len(n.path) - 1), Directory) \in RemovedNodes
  /\ \E n \in disk :
       /\ AboveEntryDirectory(n.path)
       /\ \E m \in Glob(disk, n.path) : m.what # Directory

\* Where the i-th File of a catalog Entry is expected.
ExpectedPath(e, i) == DataDir \o EntryName(e) \o <<GetFileName(e.files[i])>>

\* The i-th File of the Entry is not there.
Missing(e, i) == \A n \in disk : n.path # ExpectedPath(e, i)

\* The i-th File of the Entry is there with a digest other than the stored
\* checksum.
DigestDiffers(e, i) ==
  \E n \in disk : /\ n.path = ExpectedPath(e, i)
                  /\ GetFileHash(n.what) # e.files[i].checksum

\* The Entry has a File that is missing or, when verification was asked
\* for, one whose digest differs.
NeedsRefresh(e) ==
  \E i \in 1..Len(e.files) :
    Missing(e, i) \/ (managed.verify /\ DigestDiffers(e, i))

\* Where the catalog lists an Entry.
CatalogPosition(e) ==
  CHOOSE k \in 1..Len(IterData(data)) : IterData(data)[k] = e

\* C20: check_files returns exactly the catalog Entries with a File that is
\* missing or, only under verify_checksum, whose digest differs from the
\* stored checksum; each at most once and in catalog order, whatever was
\* found for the Entries before it; without verify_checksum only the
\* presence of the files counts.
C20_FlaggedIffMissingOrCorrupted ==
  managed.op = "check" =>
    /\ Held(managed.result) \subseteq TreeEntries(data)
    /\ \A e \in TreeEntries(data) :
         e \in Held(managed.result) <=> NeedsRefresh(e)
    /\ \A i, j \in 1..Len(managed.result) :
         i < j => /\ managed.result[i] # managed.result[j]
                  /\ CatalogPosition(managed.result[i])
                       < CatalogPosition(managed.result[j])
    /\ ~managed.verify =>
         Held(managed.result)
           = { e \in TreeEntries(data) : \E i \in 1..Len(e.files) : Missing(e, i) }

\* A verifying check_files call has flagged the first catalog Entry for a
\* digest that differs, none of its Files being missing, and has gone on to
\* flag the next one for a File that is missing.
C20_Witness ==
  /\ managed.op = "check"
  /\ managed.verify
  /\ Len(managed.result) = 2
  /\ managed.result[1] = IterData(data)[1]
  /\ \A i \in 1..Len(managed.result[1].files) : ~Missing(managed.result[1], i)
  /\ \E i \in 1..Len(managed.result[1].files) : DigestDiffers(managed.result[1], i)
  /\ \E i \in 1..Len(managed.result[2].files) : Missing(managed.result[2], i)

\* ------------------------------------------ more claims on the derivation
\* What stands in a derived FTP url between the folder of the first six
\* characters and the folder of the accession.
MiddleOf(f, srr) ==
  LET value == f.sources[2].value
      six   == IF Len(srr) < 6 THEN Len(srr) ELSE 6
  IN  SubSeq(value, Len(FtpRoot) + six + 2, Len(value) - (2 * Len(srr) + 2))

\* folder is the value of the characters of srr after the ninth, written
\* with at least three digits and no more than it takes.
IsNumericFolderOf(folder, srr) ==
  /\ Len(folder) >= 3
  /\ \A i \in 1..Len(folder) : \E d \in 1..10 : Digits[d] = folder[i]
  /\ DecimalValue(folder) = DecimalValue(SubSeq(srr, 10, Len(srr)))
  /\ Len(folder) > 3 => folder[1] # "0"

\* File f has the two Sources of run srr, accelerated transfer then FTP, on
\* one object path that ends with suffix; the path has a numeric folder
\* exactly when srr is longer than 9 characters.
DerivedFileOf(f, srr, suffix) ==
  LET middle == MiddleOf(f, srr)
  IN  /\ BothPointAt(f, SubSeq(srr, 1, IF Len(srr) < 6 THEN Len(srr) ELSE 6)
                          \o <<"/">> \o middle \o srr \o <<"/">> \o srr
                          \o <<suffix>>)
      /\ Len(srr) <= 9 => middle = <<>>
      /\ Len(srr) > 9 =>
           /\ middle # <<>>
           /\ middle[Len(middle)] = "/"
           /\ IsNumericFolderOf(SubSeq(middle, 1, Len(middle) - 1), srr)

\* C24: the derived path has a numeric folder if and only if the accession
\* is longer than 9 characters, the folder being the value of the
\* characters after the ninth padded with zeros to three digits; every
\* derived File has two Sources, accelerated transfer then FTP, on the same
\* object path; a paired layout gives the Files _1 and _2 in this order, an
\* unpaired layout one File.
C24_NumericFolderIffLongerThanNine ==
  (derived.op = "get_files_from_srr" /\ derived.status = "ok") =>
    IF derived.paired
    THEN /\ Len(derived.result) = 2
         /\ DerivedFileOf(derived.result[1], derived.srr, "_1.fastq.gz")
         /\ DerivedFileOf(derived.result[2], derived.srr, "_2.fastq.gz")
    ELSE /\ Len(derived.result) = 1
         /\ DerivedFileOf(derived.result[1], derived.srr, ".fastq.gz")

\* The Files of a paired run with a ten-character accession have been
\* derived, the folder being 009.
C24_Witness ==
  /\ derived.op = "get_files_from_srr"
  /\ derived.status = "ok"
  /\ derived.paired
  /\ Len(derived.srr) = 10
  /\ Len(derived.result) = 2
  /\ MiddleOf(derived.result[1], derived.srr) = <<"0", "0", "9", "/">>

\* -------------------------------------------- more claims on the resolver
\* The run-level rows the metadata service has returned so far, in the
\* order the loop over them took them.
ProcessedRows ==
  Flatten([k \in 1..Len(resolver.queried) |->
             IF InSraFamily(resolver.queried[k])
             THEN SraMetadata(resolver.queried[k]) ELSE <<>>])

\* The first of the processed rows on the path of the k-th.
FirstRowOnPathOf(k) ==
  ProcessedRows[CHOOSE m \in 1..k :
                  /\ EntryKey(RowEntry(ProcessedRows[m]))
                       = EntryKey(RowEntry(ProcessedRows[k]))
                  /\ \A n \in 1..(m - 1) :
                       EntryKey(RowEntry(ProcessedRows[n]))
                         # EntryKey(RowEntry(ProcessedRows[k]))]

\* The Files derived for the run of a row.
FilesOfRow(row) ==
  GetFilesFromSrr(row.run_accession, row.library_layout = "PAIRED")

\* C29: the resolver returns no two Entries on one path; for every row the
\* service returned there is the Entry of its path, which carries exactly
\* the Files of the first row processed on that path and none of the Files
\* of a later run, whose accession is in the mapping of the experiment all
\* the same.
C29_OneEntryPerPathFirstRunOnly ==
  HasReturned =>
    /\ \A i, j \in 1..Len(resolver.result.entries) :
         i # j => EntryKey(resolver.result.entries[i])
                    # EntryKey(resolver.result.entries[j])
    /\ \A k \in 1..Len(ProcessedRows) :
         LET row   == ProcessedRows[k]
             first == FirstRowOnPathOf(k)
         IN  /\ \E i \in 1..Len(resolver.result.entries) :
                  LET e == resolver.result.entries[i]
                  IN  /\ EntryKey(e) = EntryKey(RowEntry(row))
                      /\ e.identifier = first.experiment_accession
                      /\ e.files = FilesOfRow(first)
                      /\ row.run_accession # first.run_accession =>
                           Held(FilesOfRow(row)) \cap Held(e.files) = {}
             /\ row.run_accession
                  \in Held(resolver.result.mappings[row.experiment_accession])

\* Experiment SRX2 was resolved, the service returned its runs RunB and
\* RunC, and the one Entry that came back has the Files of RunB only.
C29_Witness ==
  /\ HasReturned
  /\ resolver.given = <<Acc.SRX2>>
  /\ Len(ProcessedRows) = 2
  /\ ProcessedRows[2].run_accession = Acc.RunC
  /\ Len(resolver.result.entries) = 1
  /\ resolver.result.entries[1].files = FilesOfRow(ProcessedRows[1])
  /\ Acc.RunC \in Held(resolver.result.mappings[Acc.SRX2])

\* How far a family is from the experiments: ENCODE pages 3, GEO series 2,
\* GEO samples 1, SRA accessions 0.
Rank(a) ==
  IF InEncodeFamily(a) THEN 3
  ELSE IF StartsWith(a, <<"G", "S", "E">>) THEN 2
  ELSE IF StartsWith(a, <<"G", "S", "M">>) THEN 1
  ELSE 0

\* The accession numbers a query of a puts on the worklist.
Requeued(a) == IF InSraFamily(a) THEN {} ELSE StepsDown(a)

\* C30: the worklist loop terminates: every call that has entered the loop
\* leaves it, returning or raising; the worklist only ever holds accession
\* numbers the caller gave or a queried accession number led to, those of a
\* family being of one further down than the one queried; and when the call
\* returns the worklist is empty.
C30_WorklistLoopTerminates ==
  /\ [](\A k \in 1..Len(resolver.numbers) :
          \/ resolver.numbers[k] \in Held(resolver.given)
          \/ \E q \in Held(resolver.queried) :
               /\ resolver.numbers[k] \in Requeued(q)
               /\ ~OfNoFamily(resolver.numbers[k]) =>
                    Rank(resolver.numbers[k]) < Rank(q))
  /\ [](HasReturned => resolver.numbers = <<>>)
  /\ (resolver.pc = "loop") ~> (resolver.pc \in {"returned", "Exit", "IndexError"})

\* A call has returned with an empty worklist after it had queried one
\* accession number twice: it was put on the worklist again after it had
\* been taken from it.
C30_Witness ==
  /\ HasReturned
  /\ resolver.numbers = <<>>
  /\ \E i, j \in 1..Len(resolver.queried) :
       /\ i + 1 < j
       /\ resolver.queried[i] = resolver.queried[j]
       /\ resolver.queried[j] \in Requeued(resolver.queried[j - 1])
\* ------------------------------------------------------------------ C28
\* C28: fetch_file removes what it finds at the destination once, before the
\* first Source is taken, and never again: the loop starts on an empty
\* destination; taking a Source, whether the first or the one after a Source
\* that failed, leaves the destination as the last try left it; and when no
\* Source could be reached, what was found at the destination before the
\* call is gone, only the part a failed try wrote may be there.
C28_DestinationClearedOnceBeforeTheLoop ==
  /\ [](fetch.pc = "loop" /\ fetch.src = 1 => fetch.dest = Absent)
  /\ [][fetch.pc = "loop" => fetch'.dest = fetch.dest]_vars
  /\ [](fetch.pc = "NoReachableSource" => fetch.dest \in {Absent, Partial})

\* The second Source is about to be tried on the part the first one's
\* failed tries left; the file found before the call is gone.
C28_Witness ==
  /\ fetch.pc = "try"
  /\ fetch.src = 2
  /\ fetch.tries = 0
  /\ fetch.found \in Contents
  /\ fetch.dest = Partial
  /\ Len(fetch.log) = Retries
  /\ \A i \in 1..Len(fetch.log) : fetch.log[i].source = 1 /\ ~fetch.log[i].ok
\* ------------------------------------------------------------------ C23
\* The last try fetch_file logged.
LastTry == fetch.log[Len(fetch.log)]

\* The last accession number popped is the last one queried.
LastPoppedWasQueried ==
  /\ resolver.queried # <<>>
  /\ resolver.popped[Len(resolver.popped)]
       = resolver.queried[Len(resolver.queried)]

\* C23: fetch_with_retry calls the wrapped action at most 3 times, a further
\* time only after a failed one; the first try that succeeds is the last and
\* its result is what the caller goes on with; the caller hears of a failure
\* only after 3 failed tries in a row, and then fetch_file goes on to the
\* next Source, while the resolver raises Exit and returns nothing.
C23_BoundedRetry ==
  /\ \A i \in 1..Len(fetch.log) :
       /\ fetch.log[i].try <= Retries
       /\ fetch.log[i].try > 1 =>
            /\ fetch.log[i - 1].source = fetch.log[i].source
            /\ fetch.log[i - 1].try = fetch.log[i].try - 1
            /\ ~fetch.log[i - 1].ok
       /\ i < Len(fetch.log) =>
            /\ ~fetch.log[i].ok
            /\ fetch.log[i + 1].try <= 1 =>
                 /\ fetch.log[i].try \in {0, Retries}
                 /\ fetch.log[i + 1].source > fetch.log[i].source
  /\ fetch.pc \in {"checksum", "Verified", "Established", "Mismatch"} =>
       /\ fetch.log # <<>>
       /\ LastTry.ok
       /\ fetch.dest \in Contents
  /\ (fetch.pc \in {"loop", "NoReachableSource"} /\ fetch.log # <<>>) =>
       /\ ~LastTry.ok
       /\ LastTry.try \in {0, Retries}
       /\ fetch.src > LastTry.source
  /\ (fetch.pc = "try" /\ fetch.tries > 0) =>
       /\ ~LastTry.ok
       /\ LastTry.source = fetch.src
       /\ LastTry.try = fetch.tries
       /\ fetch.tries < Retries
  /\ resolver.tries <= Retries
  /\ LastPoppedWasQueried =>
       /\ resolver.tries >= 1
       /\ resolver.pc = "Exit" =>
            /\ resolver.tries = Retries
            /\ resolver.result = QueryResult(<<>>, <<>>)

\* The first Source failed three times in a row, and the second, taken
\* next, was fetched at its second try, which was its last.
C23_Witness ==
  /\ fetch.pc = "checksum"
  /\ Len(fetch.log) = Retries + 2
  /\ \A i \in 1..Retries :
       fetch.log[i] = Attempt(1, i, FALSE)
  /\ fetch.log[Retries + 1] = Attempt(2, 1, FALSE)
  /\ fetch.log[Retries + 2] = Attempt(2, 2, TRUE)

\* ------------------------------------------------------------------- C22
\* C22: the fetch operations never change the catalog tree: after add_files
\* has run in an install, every Project, Experiment, Type, Phase and File of
\* the tree in memory, checksums included, is what load returned.
C22_FetchNeverMutatesTree ==
  command.op = "install" /\ command.at = "add_files" => data = command.loaded

\* ------------------------------------------------------------------- C21
\* C21: add_files is best-effort per item: when the fetch of a File has
\* failed, a fetch_file call has still been made for every File of every
\* other Entry of the batch by the time add_files has ended.
C21_SiblingsStillAttempted ==
  command.at = "add_files" =>
    \A i \in 1..Len(command.entries) :
      (\A k \in 1..Len(command.calls) :
         command.calls[k].entry = i =>
           command.calls[k].pc \in {"Verified", "Established"})
        => \A j \in 1..Len(command.entries[i].files) :
             \E k \in 1..Len(command.calls) :
               command.calls[k].entry = i /\ command.calls[k].file = j

\* ------------------------------------------------------------------- C25
\* A tree that holds a library type, a pipeline phase or a transport kind
\* that is no member of its vocabulary.
StoresOutsideVocabulary(d) ==
  \E pi \in 1..Len(d) :
    \E ei \in 1..Len(d[pi].experiments) :
      \E ti \in 1..Len(d[pi].experiments[ei].types) :
        LET t == d[pi].experiments[ei].types[ti]
        IN  \/ TypeEnum(t.type) = "ValueError"
            \/ \E hi \in 1..Len(t.phases) :
                 \/ PhaseEnum(t.phases[hi].phase) = "ValueError"
                 \/ \E k \in 1..Len(t.phases[hi].files) :
                      \E n \in 1..Len(t.phases[hi].files[k].sources) :
                        Dispatch(t.phases[hi].files[k].sources[n].type) = None

\* C25: a manifest that stores a library type, pipeline phase or transport
\* kind outside the vocabulary fails at load: the run ends there with the
\* reported Exit, and the value never is in the tree in memory.
C25_InvalidStoredValueFailsAtLoad ==
  command.at # "none" /\ StoresOutsideVocabulary(command.was.data) =>
    /\ command.at = "load" /\ command.status = "Exit"
    /\ ~StoresOutsideVocabulary(data)

\* ------------------------------------------------------------------- C26
\* The path or URL a File built from a file argument is fetched from.
ArgumentOf(file) == file.sources[1].value

\* The file argument the first Entry is built from: the last local path,
\* the URL when no local path is given.
FirstPopped ==
  IF command.args.local # <<>>
  THEN command.args.local[Len(command.args.local)]
  ELSE command.args.http[Len(command.args.http)]

\* C26: whatever file arguments add is given, its entry set holds one
\* Entry, the first one constructed: its Files are the argument popped
\* first and, at most, the other mate of its pair; every fetch_file call is
\* for a File of that Entry, and the tree of a completed add holds one Entry
\* more than load returned.
C26_OnlyFirstEntryKept ==
  command.op = "add" /\ command.at \in {"confirm_or_quit", "add_files",
                                        "add_data", "save"} =>
    /\ Len(command.entries) = 1
    /\ \E j \in 1..Len(command.entries[1].files) :
         ArgumentOf(command.entries[1].files[j]) = FirstPopped
    /\ \A j \in 1..Len(command.entries[1].files) :
         \/ ArgumentOf(command.entries[1].files[j]) = FirstPopped
         \/ /\ Len(command.entries[1].files) = 2
            /\ \E k \in 1..Len(command.args.local) :
                 command.args.local[k] = ArgumentOf(command.entries[1].files[j])
            /\ \E n \in 1..Len(FirstPopped) :
                 /\ FirstPopped[n] \in {"1", "2"}
                 /\ ArgumentOf(command.entries[1].files[j])[n] \in {"1", "2"}
                 /\ \A m \in 1..Len(FirstPopped) :
                      m # n => ArgumentOf(command.entries[1].files[j])[m]
                                 = FirstPopped[m]
    /\ \A k \in 1..Len(command.calls) : command.calls[k].entry = 1
    /\ command.status = "Done" =>
         Len(IterData(data)) = Len(IterData(command.loaded)) + 1

\* An add given an unrelated local path and a URL has completed: the Entry
\* of the local path was fetched and cataloged, the URL was dropped.
C26_Witness ==
  /\ command.op = "add" /\ command.status = "Done"
  /\ Len(command.args.local) = 1 /\ Len(command.args.http) = 1
  /\ Len(command.calls) = 1
  /\ Len(IterData(data)) = Len(IterData(command.loaded)) + 1

\* ------------------------------------------------------------------- C27
\* C27: in add, the tree is what load returned until add_files has ended,
\* and the manifest is written only by a run whose fetch_file calls, one
\* for every File, all succeeded and whose add_data raised nothing: a run
\* that ended otherwise left the manifest as it found it. What a fetch_file
\* call that transferred a file left at its path is there when the run
\* ends, however it ends.
C27_FetchThenCatalogThenSave ==
  command.op = "add" =>
    /\ command.at \in {"load", "arguments", "confirm_or_quit", "add_files"}
         => data = command.loaded
    /\ command.status # "Done" => command.saved = command.was
    /\ command.status = "Done" =>
         /\ command.saved = [data |-> data, typed |-> TRUE]
         /\ \A k \in 1..Len(command.calls) :
              command.calls[k].pc \in {"Verified", "Established"}
         /\ \A i \in 1..Len(command.entries) :
              \A j \in 1..Len(command.entries[i].files) :
                \E k \in 1..Len(command.calls) :
                  command.calls[k].entry = i /\ command.calls[k].file = j
    /\ \A k \in 1..Len(command.calls) :
         command.calls[k].pc \in {"Verified", "Established", "Mismatch"}
           => /\ Exists(disk, command.calls[k].path)
              /\ ContentAt(disk, command.calls[k].path) \in Contents

\* An add has ended at add_data on an Entry that is in the catalog, after
\* its fetch_file call had replaced the file of the cataloged Entry by other
\* content: the manifest is as it was.
C27_Witness ==
  /\ command.op = "add" /\ command.at = "add_data" /\ command.status = "Exit"
  /\ command.saved = command.was
  /\ \E k \in 1..Len(command.calls) :
       /\ command.calls[k].pc = "Established"
       /\ Exists(command.found, command.calls[k].path)
       /\ ContentAt(command.found, command.calls[k].path) \in Contents
       /\ ContentAt(disk, command.calls[k].path)
            # ContentAt(command.found, command.calls[k].path)

====
